---- MODULE Spec2Model ----
(***************************************************************************)
(* Tenant lifecycle and runtime orchestrator of go-multi-tenant:           *)
(* TenantManager (CreateTenant, DeleteTenant, UpdateConcurrency,           *)
(* GetTenant, Shutdown, startup recovery), WorkerPool, and the RabbitMQ    *)
(* Consumer pump, over a store (tenants, partitions, tenant_configs) and a *)
(* broker (queues and their messages).                                     *)
(***************************************************************************)
EXTENDS Integers, FiniteSets, Sequences, TLC

\* ---------------------------------------------------------------- bounds
\* Number of tenant ids uuid.New() hands out in one run.
MaxTenants == 2
\* Largest workers value an UpdateConcurrency request carries (the API
\* admits 1..100).
MaxWorkers == 2
\* Number of messages publishers send to the broker in one run.
MaxMsgs == 2
\* How far below zero the gauge is followed.
MaxBelow == 2
\* Length of the longest tenant id string between its braces.
MaxIdLen == 3
\* Number of messages stored for the tenant a client pages through.
MaxStored == 3
\* Largest limit a paging client asks for (the service admits 1..100).
MaxLimit == 2
\* Number of whole seconds the created_at values of the messages span.
MaxSeconds == 2
\* Number of distinct created_at values within one second (TIMESTAMPTZ has
\* microseconds).
TicksPerSecond == 2

\* ------------------------------------------------------- program constants
\* make(chan []byte, 100)
JobQueueCap == 100
\* cfg.Workers default, and the value the tests hand to NewTenantManager
defaultWorkers == 3

TenantIds == 1..MaxTenants
WorkerValues == 1..MaxWorkers
\* Slots for control-plane calls (HTTP handler goroutines).
Calls == {1, 2}

VARIABLES
    \* store
    tenants,         \* ids with a row in table tenants
    partitions,      \* names of the partitions of table messages
    tenant_configs,  \* function: ids with a tenant_configs row -> workers
    \* broker
    queues,          \* names of the declared queues
    msgs,            \* queue name -> number of ready messages
    \* TenantManager
    consumers,       \* key set of tm.consumers
    workerPools,     \* key set of tm.workerPools
    mu,              \* set of calls holding tm.mu (empty: unlocked)
    \* objects built by startTenantConsumer, by tenant id
    consumer,        \* Consumer: channel, done, the pump goroutine
    pool,            \* WorkerPool: workers, jobQueue, quit, wg
    \* control-plane calls in progress
    call,
    nextId,          \* ids handed out so far
    \* environment of the run
    conc,            \* number of control-plane calls that may overlap
    faults,          \* whether store and broker steps may fail
    budget,          \* messages publishers have still to send
    \* history
    deletedOk,       \* ids for which DeleteTenant returned nil
    boot,            \* outcome of the last startup recovery
    shutdownOk,      \* whether Shutdown has returned in this process
    \* metrics
    metered,         \* whether the run follows the gauge and the log
    gauge,           \* value of active_tenants_total in this process
    parseErrors,     \* whether processJob has logged a payload it could not parse
    \* database and message service calls on their own
    ddl,             \* a partition DDL call: its tenant id and statement
    pager            \* a client paging through GetMessages

vars == <<tenants, partitions, tenant_configs, queues, msgs, consumers,
          workerPools, mu, consumer, pool, call, nextId, conc, faults,
          budget, deletedOk, boot, shutdownOk, metered, gauge,
          parseErrors, ddl, pager>>

storeVars == <<tenants, partitions, tenant_configs>>
brokerVars == <<queues, msgs>>
registryVars == <<consumers, workerPools>>
\* What the steps of the tenant runtime never write, what the steps that
\* touch the gauge leave alone, and what all steps but those and the return
\* of a handler leave alone.
fixedVars == <<conc, faults, metered, ddl, pager>>
histVars == <<fixedVars, shutdownOk>>
runVars == <<histVars, parseErrors>>
envVars == <<runVars, gauge>>
\* The tenant runtime, which a database or message service call on its own
\* does not touch.
tenantVars == <<storeVars, brokerVars, registryVars, mu, consumer, pool, call,
                nextId, conc, faults, budget, deletedOk, boot, metered,
                gauge, parseErrors, shutdownOk>>

\* ------------------------------------------------------------------ names
\* fmt.Sprintf("tenant_%s_queue", tenantID)
QueueName(t) == <<"tenant_", t, "_queue">>
\* fmt.Sprintf("tenant_%s_dlq", tenantID)
DlqName(t) == <<"tenant_", t, "_dlq">>
\* strings.ReplaceAll(tenantID, "-", "_") prefixed with messages_
PartitionName(t) == <<"messages_", t>>

QueueNames == {QueueName(t) : t \in TenantIds} \cup {DlqName(t) : t \in TenantIds}

\* The arguments table handed to QueueDeclare for the primary queue: nil.
PrimaryQueueArgs == << >>

\* Where the broker dead-letters a message rejected without requeue from a
\* queue declared with these arguments: the queue the arguments route to,
\* or nowhere when they name no dead-letter exchange.
DeadLetterTargets(args) ==
    IF "x-dead-letter-routing-key" \in DOMAIN args
    THEN {args["x-dead-letter-routing-key"]}
    ELSE {}

\* -------------------------------------------------------------- outcomes
\* Whether a store or broker step succeeds.
Outcomes == IF faults THEN {TRUE, FALSE} ELSE {TRUE}

\* How far CreateTenantQueue gets: the channel or the first declaration
\* fails, the dead-letter declaration fails, Consume fails, or all succeed.
DeclareOutcomes ==
    IF faults THEN {"fail", "nodlq", "noconsume", "ok"} ELSE {"ok"}

\* Variant of DeclaredBy in which CreateTenantQueue declares no dead-letter
\* queue.
DeclaredByPrimaryOnly(t, o) ==
    IF o = "fail" THEN {} ELSE {QueueName(t)}

\* The queues declared once CreateTenantQueue(t) ended with outcome o.
DeclaredBy(t, o) ==
    CASE o = "fail" -> {}
      [] o = "nodlq" -> {QueueName(t)}
      [] OTHER -> {QueueName(t), DlqName(t)}

\* ---------------------------------------------------------------- objects
NoConsumer == [made |-> FALSE, done |-> FALSE, open |-> FALSE, pump |-> "none"]
\* &Consumer{channel: ch, deliveries: deliveries, done: make(chan bool)}
NewConsumer == [made |-> TRUE, done |-> FALSE, open |-> TRUE, pump |-> "none"]

NoPool == [made |-> FALSE, workers |-> 0, jobQueue |-> 0, quit |-> FALSE,
           live |-> 0, busy |-> 0]
\* NewWorkerPool(workers): the pool and, by start(), its worker goroutines
NewWorkerPool(w) ==
    [made |-> TRUE, workers |-> w, jobQueue |-> 0, quit |-> FALSE,
     live |-> w, busy |-> 0]

\* The record of a startup recovery: the tenants still to recover, whether
\* ListTenants succeeded, the tenants whose queues were declared and whose
\* workers value was read. NoBoot: requests have been served since.
NoBoot == [fresh |-> FALSE, listed |-> FALSE, todo |-> {}, declared |-> {},
           read |-> {}]

IdleCall == [op |-> "none", id |-> 0, n |-> 0, pc |-> "idle", w |-> 0,
             k |-> 0, todo |-> {}, ret |-> "none"]

Active(c) == call[c].pc \notin {"idle", "done"}

\* A call returns r: its locals are gone, the handler holds the result.
Returned(op, r) == [IdleCall EXCEPT !.op = op, !.pc = "done", !.ret = r]
Return(c, r) == Returned(call[c].op, r)

\* No partition DDL call has been made.
NoDdl == [fn |-> "none", id |-> << >>, stmt |-> << >>]

\* No client is paging.
NoPager == [stored |-> << >>, limit |-> 0, cursor |-> << >>, asked |-> 0,
            got |-> << >>, page |-> {}, more |-> FALSE]

\* ------------------------------------------------------------------- Init
\* The tenant runtime at its start: empty store and broker, no tenant
\* registered, n calls may overlap, steps may fail when f, the gauge is
\* followed when m.
RunStarts(n, f, m) ==
    /\ tenants = {}
    /\ partitions = {}
    /\ tenant_configs = << >>
    /\ queues = {}
    /\ msgs = [q \in QueueNames |-> 0]
    /\ consumers = {}
    /\ workerPools = {}
    /\ mu = {}
    /\ consumer = [t \in TenantIds |-> NoConsumer]
    /\ pool = [t \in TenantIds |-> NoPool]
    /\ call = [c \in Calls |-> IdleCall]
    /\ nextId = 0
    /\ conc = n
    /\ faults = f
    /\ budget = MaxMsgs
    /\ deletedOk = {}
    /\ boot = NoBoot
    /\ metered = m
    /\ gauge = 0
    /\ parseErrors = FALSE
    /\ shutdownOk = FALSE

InitRun(n, f, m) ==
    /\ RunStarts(n, f, m)
    /\ ddl = NoDdl
    /\ pager = NoPager

InitWith(n, f) == InitRun(n, f, FALSE)

\* The process right after NewTenantManager over an empty store, serving one
\* control-plane call at a time; store and broker steps may fail.
Init == InitWith(1, TRUE)

\* ----------------------------------------------------------------- metrics
\* activeTenants.Inc() / activeTenants.Dec() of metrics/prometheus.go, in a
\* run that follows the gauge.
Inc(g) == IF metered THEN g + 1 ELSE g

Dec(g) == IF metered THEN g - 1 ELSE g

\* ------------------------------------------------------------ CreateTenant
\* The ids a request can name: the ids handed out so far.
KnownIds == 1..nextId

\* A control-plane request can arrive on slot c: NewTenantManager has
\* returned and the server listens, the slot is free, and fewer than conc
\* calls are in progress.
CanStart(c) ==
    /\ boot.todo = {}
    /\ ~Active(c)
    /\ \A d \in Calls : d < c => Active(d)
    /\ Cardinality({d \in Calls : Active(d)}) < conc

\* The locals of a call of op on tenant t with workers n that has just begun.
Begun(op, t, n) == [IdleCall EXCEPT !.op = op, !.id = t, !.n = n]

\* CreateTenant(name): tenantID := uuid.New(); INSERT INTO tenants.
CreateInsert(c) ==
    /\ CanStart(c)
    /\ nextId < MaxTenants
    /\ \E ok \in Outcomes :
         IF ok
         THEN /\ nextId' = nextId + 1
              /\ tenants' = tenants \cup {nextId + 1}
              /\ call' = [call EXCEPT ![c] =
                            [Begun("create", nextId + 1, 0) EXCEPT
                                !.pc = "c_partition"]]
         ELSE /\ call' = [call EXCEPT ![c] = Returned("create", "err")]
              /\ UNCHANGED <<nextId, tenants>>
    /\ UNCHANGED <<partitions, tenant_configs, brokerVars, registryVars, mu,
                   consumer, pool, envVars, budget, deletedOk>>
    /\ boot' = NoBoot

\* database.CreateTenantPartition
CreatePartition(c) ==
    /\ call[c].pc = "c_partition"
    /\ \E ok \in Outcomes :
         IF ok
         THEN /\ partitions' = partitions \cup {PartitionName(call[c].id)}
              /\ call' = [call EXCEPT ![c].pc = "c_config"]
         ELSE /\ call' = [call EXCEPT ![c] = Return(c, "err")]
              /\ UNCHANGED partitions
    /\ UNCHANGED <<tenants, tenant_configs, brokerVars, registryVars, mu,
                   consumer, pool, nextId, envVars, budget,
                   deletedOk>>
    /\ UNCHANGED boot

\* Variant of CreateConfig in which CreateTenant deletes the tenant row and
\* drops the partition when the config insert fails.
CreateConfigRollsBack(c) ==
    /\ call[c].pc = "c_config"
    /\ \E ok \in Outcomes :
         IF ok /\ call[c].id \in tenants
         THEN /\ tenant_configs' =
                   [t \in DOMAIN tenant_configs \cup {call[c].id} |->
                       IF t = call[c].id THEN defaultWorkers
                       ELSE tenant_configs[t]]
              /\ call' = [call EXCEPT ![c].pc = "c_queue"]
              /\ UNCHANGED <<tenants, partitions>>
         ELSE /\ call' = [call EXCEPT ![c] = Return(c, "err")]
              /\ tenants' = tenants \ {call[c].id}
              /\ partitions' = partitions \ {PartitionName(call[c].id)}
              /\ UNCHANGED tenant_configs
    /\ UNCHANGED <<brokerVars, registryVars, mu, consumer, pool, nextId,
                   envVars, budget, deletedOk>>
    /\ UNCHANGED boot

\* INSERT INTO tenant_configs (tenant_id, workers): tenant_id REFERENCES
\* tenants(id), so the insert fails when the tenant row is gone.
CreateConfig(c) ==
    /\ call[c].pc = "c_config"
    /\ \E ok \in Outcomes :
         IF ok /\ call[c].id \in tenants
         THEN /\ tenant_configs' =
                   [t \in DOMAIN tenant_configs \cup {call[c].id} |->
                       IF t = call[c].id THEN defaultWorkers
                       ELSE tenant_configs[t]]
              /\ call' = [call EXCEPT ![c].pc = "c_queue"]
         ELSE /\ call' = [call EXCEPT ![c] = Return(c, "err")]
              /\ UNCHANGED tenant_configs
    /\ UNCHANGED <<tenants, partitions, brokerVars, registryVars, mu,
                   consumer, pool, nextId, envVars, budget,
                   deletedOk>>
    /\ UNCHANGED boot

\* startTenantConsumer: tm.rabbitmq.CreateTenantQueue(tenantID). Queues
\* declared before a later step of it fails stay declared.
CreateQueue(c) ==
    /\ call[c].pc = "c_queue"
    /\ \E o \in DeclareOutcomes :
         /\ queues' = queues \cup DeclaredBy(call[c].id, o)
         /\ IF o = "ok"
            THEN /\ consumer' = [consumer EXCEPT ![call[c].id] = NewConsumer]
                 /\ call' = [call EXCEPT ![c].pc = "c_read"]
            ELSE /\ call' = [call EXCEPT ![c] = Return(c, "err")]
                 /\ UNCHANGED consumer
    /\ UNCHANGED <<storeVars, msgs, registryVars, mu, pool, nextId, envVars,
                   budget, deletedOk>>
    /\ UNCHANGED boot

\* Variant of ReadWorkers in which startTenantConsumer ignores the row and
\* always builds the pool with tm.defaultWorkers.
ReadWorkersDefaultOnly(t, ok) == defaultWorkers

\* The workers value startTenantConsumer builds the pool with: the row's
\* value, or tm.defaultWorkers when the SELECT fails or finds no row.
ReadWorkers(t, ok) ==
    IF ok /\ t \in DOMAIN tenant_configs
    THEN tenant_configs[t]
    ELSE defaultWorkers

\* Variant of CreateRead in which startTenantConsumer returns the error of a
\* failed SELECT.
CreateReadFailsOnError(c) ==
    /\ call[c].pc = "c_read"
    /\ \E ok \in Outcomes :
         IF ok
         THEN call' = [call EXCEPT ![c].w = ReadWorkers(call[c].id, ok),
                                   ![c].pc = "c_register"]
         ELSE call' = [call EXCEPT ![c] = Return(c, "err")]
    /\ UNCHANGED <<storeVars, brokerVars, registryVars, mu, consumer, pool,
                   nextId, envVars, budget, deletedOk>>
    /\ UNCHANGED boot

\* startTenantConsumer: SELECT workers FROM tenant_configs
CreateRead(c) ==
    /\ call[c].pc = "c_read"
    /\ \E ok \in Outcomes :
         call' = [call EXCEPT ![c].w = ReadWorkers(call[c].id, ok),
                              ![c].pc = "c_register"]
    /\ UNCHANGED <<storeVars, brokerVars, registryVars, mu, consumer, pool,
                   nextId, envVars, budget, deletedOk>>
    /\ UNCHANGED boot

\* Variant of CreateRegister in which startTenantConsumer stores the consumer
\* and not the pool.
CreateRegisterConsumerOnly(c) ==
    /\ call[c].pc = "c_register"
    /\ mu = {}
    /\ pool' = [pool EXCEPT ![call[c].id] = NewWorkerPool(call[c].w)]
    /\ consumers' = consumers \cup {call[c].id}
    /\ call' = [call EXCEPT ![c].pc = "c_start"]
    /\ UNCHANGED <<storeVars, brokerVars, workerPools, mu, consumer, nextId,
                   envVars, budget, deletedOk>>
    /\ UNCHANGED boot

\* startTenantConsumer: pool := NewWorkerPool(workers), then under tm.mu the
\* two map stores.
CreateRegister(c) ==
    /\ call[c].pc = "c_register"
    /\ mu = {}
    /\ pool' = [pool EXCEPT ![call[c].id] = NewWorkerPool(call[c].w)]
    /\ consumers' = consumers \cup {call[c].id}
    /\ workerPools' = workerPools \cup {call[c].id}
    /\ call' = [call EXCEPT ![c].pc = "c_start"]
    /\ UNCHANGED <<storeVars, brokerVars, mu, consumer, nextId, envVars,
                   budget, deletedOk>>
    /\ UNCHANGED boot

\* startTenantConsumer: consumer.Start(handler) spawns the pump goroutine;
\* CreateTenant then calls metrics.IncrementActiveTenants() and returns the
\* tenant.
CreateStart(c) ==
    /\ call[c].pc = "c_start"
    /\ consumer' = [consumer EXCEPT ![call[c].id].pump = "idle"]
    /\ call' = [call EXCEPT ![c] = Return(c, "ok")]
    /\ gauge' = Inc(gauge)
    /\ UNCHANGED <<storeVars, brokerVars, registryVars, mu, pool, nextId,
                   runVars, budget, deletedOk>>
    /\ UNCHANGED boot

\* ------------------------------------------------------------ DeleteTenant
\* DeleteTenant(tenantID): tm.mu.Lock(); defer tm.mu.Unlock()
DeleteLock(c) ==
    /\ CanStart(c)
    /\ gauge > -MaxBelow
    /\ mu = {}
    /\ mu' = {c}
    /\ \E t \in KnownIds :
         call' = [call EXCEPT ![c] =
                    [Begun("delete", t, 0) EXCEPT !.pc = "d_consumer"]]
    /\ UNCHANGED <<storeVars, brokerVars, registryVars, consumer, pool,
                   nextId, envVars, budget, deletedOk>>
    /\ boot' = NoBoot

\* Variant of StoppedConsumer in which Consumer.Stop leaves the channel open.
StoppedConsumerLeavesChannel(t) == [consumer[t] EXCEPT !.done = TRUE]

\* Consumer.Stop: close(c.done), channel.Cancel, channel.Close. The broker
\* requeues the delivery the pump holds unsettled, if any.
StoppedConsumer(t) == [consumer[t] EXCEPT !.done = TRUE, !.open = FALSE]

RequeuedAtClose(t) ==
    IF consumer[t].open /\ consumer[t].pump \in {"acc", "rej"}
       /\ QueueName(t) \in queues
    THEN [msgs EXCEPT ![QueueName(t)] = @ + 1]
    ELSE msgs

\* if consumer, exists := tm.consumers[tenantID]; exists { consumer.Stop();
\* delete(tm.consumers, tenantID) }. close of a closed done channel panics.
DeleteStopConsumer(c) ==
    /\ call[c].pc = "d_consumer"
    /\ LET t == call[c].id IN
         IF t \notin consumers
         THEN /\ call' = [call EXCEPT ![c].pc = "d_pool"]
              /\ UNCHANGED <<consumer, msgs, consumers, mu>>
         ELSE IF consumer[t].done
         THEN /\ call' = [call EXCEPT ![c] = Return(c, "panic")]
              /\ mu' = {}
              /\ UNCHANGED <<consumer, msgs, consumers>>
         ELSE /\ consumer' = [consumer EXCEPT ![t] = StoppedConsumer(t)]
              /\ msgs' = RequeuedAtClose(t)
              /\ consumers' = consumers \ {t}
              /\ call' = [call EXCEPT ![c].pc = "d_pool"]
              /\ UNCHANGED mu
    /\ UNCHANGED <<storeVars, queues, workerPools, pool, nextId, envVars,
                   budget, deletedOk>>
    /\ UNCHANGED boot

\* if pool, exists := tm.workerPools[tenantID]; exists { pool.Stop() ... }:
\* WorkerPool.Stop begins with close(wp.quit), which panics on a closed quit.
DeleteStopPool(c) ==
    /\ call[c].pc = "d_pool"
    /\ LET t == call[c].id IN
         IF t \notin workerPools
         THEN /\ call' = [call EXCEPT ![c].pc = "d_queue"]
              /\ UNCHANGED <<pool, mu>>
         ELSE IF pool[t].quit
         THEN /\ call' = [call EXCEPT ![c] = Return(c, "panic")]
              /\ mu' = {}
              /\ UNCHANGED pool
         ELSE /\ pool' = [pool EXCEPT ![t].quit = TRUE]
              /\ call' = [call EXCEPT ![c].pc = "d_wait"]
              /\ UNCHANGED mu
    /\ UNCHANGED <<storeVars, brokerVars, registryVars, consumer, nextId,
                   envVars, budget, deletedOk>>
    /\ UNCHANGED boot

\* WorkerPool.Stop: wp.wg.Wait() returns once every worker has returned;
\* then delete(tm.workerPools, tenantID). A pool the pump goroutine no longer
\* refers to either is freed by the collector.
DeleteWait(c) ==
    /\ call[c].pc = "d_wait"
    /\ pool[call[c].id].live = 0
    /\ workerPools' = workerPools \ {call[c].id}
    /\ pool' = [pool EXCEPT ![call[c].id] =
                    IF consumer[call[c].id].pump \in {"none", "exit"}
                    THEN NoPool ELSE @]
    /\ call' = [call EXCEPT ![c].pc = "d_queue"]
    /\ UNCHANGED <<storeVars, brokerVars, consumers, mu, consumer, nextId,
                   envVars, budget, deletedOk>>
    /\ UNCHANGED boot

\* The queues a DeleteTenantQueue(t) may end up deleting: opening the channel
\* or either QueueDelete can fail, and each failure is only logged.
DeletableQueues(t) ==
    IF faults THEN SUBSET {QueueName(t), DlqName(t)}
    ELSE {{QueueName(t), DlqName(t)}}

\* Variant of AfterDeleteQueue in which DeleteTenant returns an error when a
\* queue could not be deleted.
AfterDeleteQueueFatal(c, del) ==
    IF del = {QueueName(call[c].id), DlqName(call[c].id)}
    THEN [call[c] EXCEPT !.pc = "d_row"]
    ELSE Return(c, "err")

\* if err := tm.rabbitmq.DeleteTenantQueue(tenantID); err != nil { log
\* warning }: the call goes on to the row whatever was deleted.
AfterDeleteQueue(c, del) == [call[c] EXCEPT !.pc = "d_row"]

\* tm.rabbitmq.DeleteTenantQueue(tenantID): a failure is a warning.
DeleteQueue(c) ==
    /\ call[c].pc = "d_queue"
    /\ \E del \in DeletableQueues(call[c].id) :
         /\ queues' = queues \ del
         /\ msgs' = [q \in QueueNames |-> IF q \in del THEN 0 ELSE msgs[q]]
         /\ call' = [call EXCEPT ![c] = AfterDeleteQueue(c, del)]
    /\ UNCHANGED <<storeVars, registryVars, mu, consumer, pool, nextId,
                   envVars, budget, deletedOk>>
    /\ UNCHANGED boot

\* Variant of DeleteRow in which DeleteTenant checks the rows affected, as
\* UpdateConcurrency does, and fails when the DELETE removed no row.
DeleteRowRequiresRow(c) ==
    /\ call[c].pc = "d_row"
    /\ \E ok \in Outcomes :
         IF ok /\ call[c].id \in tenants
         THEN /\ tenants' = tenants \ {call[c].id}
              /\ tenant_configs' =
                   [t \in DOMAIN tenant_configs \ {call[c].id} |->
                       tenant_configs[t]]
              /\ call' = [call EXCEPT ![c].pc = "d_partition"]
              /\ UNCHANGED mu
         ELSE /\ call' = [call EXCEPT ![c] = Return(c, "err")]
              /\ mu' = {}
              /\ UNCHANGED <<tenants, tenant_configs>>
    /\ UNCHANGED <<partitions, brokerVars, registryVars, consumer, pool,
                   nextId, envVars, budget, deletedOk>>
    /\ UNCHANGED boot

\* DELETE FROM tenants WHERE id = $1; tenant_configs rows cascade. An error
\* is returned; deleting no row is not an error.
DeleteRow(c) ==
    /\ call[c].pc = "d_row"
    /\ \E ok \in Outcomes :
         IF ok
         THEN /\ tenants' = tenants \ {call[c].id}
              /\ tenant_configs' =
                   [t \in DOMAIN tenant_configs \ {call[c].id} |->
                       tenant_configs[t]]
              /\ call' = [call EXCEPT ![c].pc = "d_partition"]
              /\ UNCHANGED mu
         ELSE /\ call' = [call EXCEPT ![c] = Return(c, "err")]
              /\ mu' = {}
              /\ UNCHANGED <<tenants, tenant_configs>>
    /\ UNCHANGED <<partitions, brokerVars, registryVars, consumer, pool,
                   nextId, envVars, budget, deletedOk>>
    /\ UNCHANGED boot

\* database.DropTenantPartition: a failure is a warning; then
\* metrics.DecrementActiveTenants() and return nil.
DeletePartition(c) ==
    /\ call[c].pc = "d_partition"
    /\ \E ok \in Outcomes :
         partitions' = IF ok THEN partitions \ {PartitionName(call[c].id)}
                       ELSE partitions
    /\ call' = [call EXCEPT ![c] = Return(c, "ok")]
    /\ mu' = {}
    /\ deletedOk' = deletedOk \cup {call[c].id}
    /\ gauge' = Dec(gauge)
    /\ UNCHANGED <<tenants, tenant_configs, brokerVars, registryVars,
                   consumer, pool, nextId, runVars, budget>>
    /\ UNCHANGED boot

\* -------------------------------------------------------- UpdateConcurrency
\* Variant of UpdateOutcome in which UpdateConcurrency does not look at the
\* number of rows its UPDATE affected.
UpdateOutcomeIgnoresRows(t, ok) == IF ~ok THEN "err" ELSE "stored"

\* The UPDATE of UpdateConcurrency and the checks after it: an error of Exec
\* or RowsAffected, "tenant not found" when no row was affected, or stored.
UpdateOutcome(t, ok) ==
    IF ~ok THEN "err"
    ELSE IF t \notin DOMAIN tenant_configs THEN "notfound"
    ELSE "stored"

\* UpdateConcurrency(tenantID, workers): UPDATE tenant_configs SET workers =
\* $1 WHERE tenant_id = $2. An error is returned, and so is "tenant not
\* found" when no row was affected.
UpdateStore(c) ==
    /\ CanStart(c)
    /\ \E t \in KnownIds, n \in WorkerValues, ok \in Outcomes :
         IF UpdateOutcome(t, ok) # "stored"
         THEN /\ call' = [call EXCEPT ![c] =
                            Returned("update", UpdateOutcome(t, ok))]
              /\ UNCHANGED tenant_configs
         ELSE /\ tenant_configs' = [tenant_configs EXCEPT ![t] = n]
              /\ call' = [call EXCEPT ![c] =
                            [Begun("update", t, n) EXCEPT !.pc = "u_lock"]]
    /\ UNCHANGED <<tenants, partitions, brokerVars, registryVars, mu,
                   consumer, pool, nextId, envVars, budget, deletedOk>>
    /\ boot' = NoBoot

\* The workers values a PUT /tenants/:id/config/concurrency body can carry
\* in a run: none or zero, the values of WorkerValues, and one past the top.
RequestWorkers == {0} \cup WorkerValues \cup {101}

\* Variant of BindWorkers in which the request struct carries no binding tag.
BindWorkersUnchecked(n) == TRUE

\* c.ShouldBindJSON(&req) with Workers int `binding:"required,min=1,max=100"`:
\* whether the body binds.
BindWorkers(n) == n >= 1 /\ n <= 100

\* The status the updateConcurrency handler answers with for a result.
UpdateStatus(r) ==
    CASE r = "badrequest" -> 400
      [] r = "notfound" -> 404
      [] r = "ok" -> 200
      [] OTHER -> 500

\* The updateConcurrency handler: a body that does not bind is answered 400
\* at once; else tm.UpdateConcurrency(tenantID, req.Workers) runs its UPDATE.
\* An answer given at once is kept with the request it answers.
UpdateRequest(c) ==
    /\ CanStart(c)
    /\ \E t \in KnownIds, n \in RequestWorkers, ok \in Outcomes :
         IF ~BindWorkers(n)
         THEN /\ call' = [call EXCEPT ![c] =
                            [Returned("update", "badrequest") EXCEPT
                                !.id = t, !.n = n]]
              /\ UNCHANGED tenant_configs
         ELSE IF UpdateOutcome(t, ok) # "stored"
         THEN /\ call' = [call EXCEPT ![c] =
                            [Returned("update", UpdateOutcome(t, ok)) EXCEPT
                                !.id = t, !.n = n]]
              /\ UNCHANGED tenant_configs
         ELSE /\ tenant_configs' = [tenant_configs EXCEPT ![t] = n]
              /\ call' = [call EXCEPT ![c] =
                            [Begun("update", t, n) EXCEPT !.pc = "u_lock"]]
    /\ UNCHANGED <<tenants, partitions, brokerVars, registryVars, mu,
                   consumer, pool, nextId, envVars, budget, deletedOk>>
    /\ boot' = NoBoot

\* tm.mu.Lock(); if pool, exists := tm.workerPools[tenantID]; exists {...}.
\* Without a pool the call unlocks and returns nil.
UpdateLock(c) ==
    /\ call[c].pc = "u_lock"
    /\ mu = {}
    /\ IF call[c].id \in workerPools
       THEN /\ mu' = {c}
            /\ call' = [call EXCEPT ![c].pc = "u_resize"]
       ELSE /\ call' = [call EXCEPT ![c] = Return(c, "ok")]
            /\ UNCHANGED mu
    /\ UNCHANGED <<storeVars, brokerVars, registryVars, consumer, pool,
                   nextId, envVars, budget, deletedOk>>
    /\ UNCHANGED boot

\* Variant of Grown in which UpdateWorkers spawns no worker.
GrownSpawnsNone(p, n) == [p EXCEPT !.workers = n]

\* WorkerPool.UpdateWorkers, growing: newWorkers - currentWorkers workers
\* are spawned, then wp.workers is stored.
Grown(p, n) == [p EXCEPT !.live = @ + (n - p.workers), !.workers = n]

\* Variant of QuitSignals in which a shrink tells every worker to exit.
QuitSignalsAll(p, n) == IF n < p.workers THEN p.workers ELSE 0

\* WorkerPool.UpdateWorkers: the number of quit signals a shrink sends.
QuitSignals(p, n) == IF n < p.workers THEN p.workers - n ELSE 0

\* Variant of UpdateResize in which the shrink loop of UpdateWorkers runs
\* from 0 and not from newWorkers: one quit signal per current worker.
UpdateResizeCountsFromZero(c) ==
    /\ call[c].pc = "u_resize"
    /\ LET t == call[c].id IN
         IF QuitSignals(pool[t], call[c].n) = 0
         THEN /\ pool' = [pool EXCEPT ![t] = Grown(pool[t], call[c].n)]
              /\ call' = [call EXCEPT ![c] = Return(c, "ok")]
              /\ mu' = {}
         ELSE /\ call' = [call EXCEPT ![c].pc = "u_send",
                                      ![c].k = pool[t].workers]
              /\ UNCHANGED <<pool, mu>>
    /\ UNCHANGED <<storeVars, brokerVars, registryVars, consumer, nextId,
                   envVars, budget, deletedOk>>
    /\ UNCHANGED boot

\* pool.UpdateWorkers(int32(workers)) up to its first blocking send.
UpdateResize(c) ==
    /\ call[c].pc = "u_resize"
    /\ LET t == call[c].id IN
         IF QuitSignals(pool[t], call[c].n) = 0
         THEN /\ pool' = [pool EXCEPT ![t] = Grown(pool[t], call[c].n)]
              /\ call' = [call EXCEPT ![c] = Return(c, "ok")]
              /\ mu' = {}
         ELSE /\ call' = [call EXCEPT ![c].pc = "u_send",
                                      ![c].k = QuitSignals(pool[t], call[c].n)]
              /\ UNCHANGED <<pool, mu>>
    /\ UNCHANGED <<storeVars, brokerVars, registryVars, consumer, nextId,
                   envVars, budget, deletedOk>>
    /\ UNCHANGED boot

\* wp.quit <- true: quit is unbuffered, so the send completes when a worker
\* waiting in its select receives it and returns; on a closed quit it panics.
\* After the last send wp.workers is stored and the call returns nil.
UpdateSendQuit(c) ==
    /\ call[c].pc = "u_send"
    /\ LET t == call[c].id IN
         IF pool[t].quit
         THEN /\ call' = [call EXCEPT ![c] = Return(c, "panic")]
              /\ mu' = {}
              /\ UNCHANGED pool
         ELSE /\ pool[t].live - pool[t].busy > 0
              /\ IF call[c].k = 1
                 THEN /\ pool' = [pool EXCEPT ![t].live = @ - 1,
                                              ![t].workers = call[c].n]
                      /\ call' = [call EXCEPT ![c] = Return(c, "ok")]
                      /\ mu' = {}
                 ELSE /\ pool' = [pool EXCEPT ![t].live = @ - 1]
                      /\ call' = [call EXCEPT ![c].k = @ - 1]
                      /\ UNCHANGED mu
    /\ UNCHANGED <<storeVars, brokerVars, registryVars, consumer, nextId,
                   envVars, budget, deletedOk>>
    /\ UNCHANGED boot

\* ---------------------------------------------------------------- GetTenant
\* Variant of GetTenantResult over a store that keeps the rows of deleted
\* tenants.
GetTenantResultKeepsRows(t, ok) ==
    IF ~ok THEN "err" ELSE IF t \in KnownIds THEN "ok" ELSE "notfound"

\* SELECT ... FROM tenants WHERE id = $1: sql.ErrNoRows is "tenant not
\* found", any other error is returned as it is.
GetTenantResult(t, ok) ==
    IF ~ok THEN "err" ELSE IF t \in tenants THEN "ok" ELSE "notfound"

\* GetTenant(tenantID)
GetTenant(c) ==
    /\ CanStart(c)
    /\ \E t \in KnownIds, ok \in Outcomes :
         call' = [call EXCEPT ![c] = Returned("get", GetTenantResult(t, ok))]
    /\ UNCHANGED <<storeVars, brokerVars, registryVars, mu, consumer, pool,
                   nextId, envVars, budget, deletedOk>>
    /\ boot' = NoBoot

\* --------------------------------------------------------------- ListTenants
\* SELECT id, name, created_at, updated_at FROM tenants ORDER BY created_at
\* DESC: the ids ListTenants returns when its query runs.
ListTenantsResult == tenants

\* ----------------------------------------------------------------- Shutdown
\* Variant of ShutdownLock in which Shutdown goes through the pools before
\* the consumers.
ShutdownLockPoolsFirst(c) ==
    /\ CanStart(c)
    /\ mu = {}
    /\ mu' = {c}
    /\ call' = [call EXCEPT ![c] =
                  [Begun("shutdown", 0, 0) EXCEPT !.pc = "s_pools",
                                                  !.todo = workerPools]]
    /\ UNCHANGED <<storeVars, brokerVars, registryVars, consumer, pool,
                   nextId, envVars, budget, deletedOk>>
    /\ boot' = NoBoot

\* Shutdown(): tm.mu.Lock(); defer tm.mu.Unlock()
ShutdownLock(c) ==
    /\ CanStart(c)
    /\ mu = {}
    /\ mu' = {c}
    /\ call' = [call EXCEPT ![c] =
                  [Begun("shutdown", 0, 0) EXCEPT !.pc = "s_consumers",
                                                  !.todo = consumers]]
    /\ UNCHANGED <<storeVars, brokerVars, registryVars, consumer, pool,
                   nextId, envVars, budget, deletedOk>>
    /\ boot' = NoBoot

\* for _, consumer := range tm.consumers { consumer.Stop() }, one iteration,
\* in the order the map yields; the maps keep their entries.
ShutdownStopConsumer(c) ==
    /\ call[c].pc = "s_consumers"
    /\ IF call[c].todo = {}
       THEN /\ call' = [call EXCEPT ![c].pc = "s_pools",
                                    ![c].todo = workerPools]
            /\ UNCHANGED <<consumer, msgs, mu>>
       ELSE \E t \in call[c].todo :
              IF consumer[t].done
              THEN /\ call' = [call EXCEPT ![c] = Return(c, "panic")]
                   /\ mu' = {}
                   /\ UNCHANGED <<consumer, msgs>>
              ELSE /\ consumer' = [consumer EXCEPT ![t] = StoppedConsumer(t)]
                   /\ msgs' = RequeuedAtClose(t)
                   /\ call' = [call EXCEPT ![c].todo = @ \ {t}]
                   /\ UNCHANGED mu
    /\ UNCHANGED <<storeVars, queues, registryVars, pool, nextId, envVars,
                   budget, deletedOk>>
    /\ UNCHANGED boot

\* for _, pool := range tm.workerPools { pool.Stop() }, one iteration up to
\* wg.Wait(): close(wp.quit). After the last pool the call returns.
ShutdownStopPool(c) ==
    /\ call[c].pc = "s_pools"
    /\ IF call[c].todo = {}
       THEN /\ call' = [call EXCEPT ![c] = Return(c, "ok")]
            /\ mu' = {}
            /\ shutdownOk' = TRUE
            /\ UNCHANGED pool
       ELSE \E t \in call[c].todo :
              IF pool[t].quit
              THEN /\ call' = [call EXCEPT ![c] = Return(c, "panic")]
                   /\ mu' = {}
                   /\ UNCHANGED <<pool, shutdownOk>>
              ELSE /\ pool' = [pool EXCEPT ![t].quit = TRUE]
                   /\ call' = [call EXCEPT ![c].pc = "s_wait", ![c].id = t,
                                           ![c].todo = @ \ {t}]
                   /\ UNCHANGED <<mu, shutdownOk>>
    /\ UNCHANGED <<storeVars, brokerVars, registryVars, consumer, nextId,
                   fixedVars, parseErrors, gauge, budget, deletedOk>>
    /\ UNCHANGED boot

\* WorkerPool.Stop: wp.wg.Wait()
ShutdownWait(c) ==
    /\ call[c].pc = "s_wait"
    /\ pool[call[c].id].live = 0
    /\ call' = [call EXCEPT ![c].pc = "s_pools", ![c].id = 0]
    /\ UNCHANGED <<storeVars, brokerVars, registryVars, mu, consumer, pool,
                   nextId, envVars, budget, deletedOk>>
    /\ UNCHANGED boot

\* ------------------------------------------------------------- WorkerPool
\* worker(): case job := <-wp.jobQueue: a waiting worker takes a job and
\* runs processJob on it.
WorkerTake(t) ==
    /\ pool[t].live - pool[t].busy > 0
    /\ pool[t].jobQueue > 0
    /\ pool' = [pool EXCEPT ![t].jobQueue = @ - 1, ![t].busy = @ + 1]
    /\ UNCHANGED <<storeVars, brokerVars, registryVars, mu, consumer, call,
                   nextId, envVars, budget, deletedOk>>
    /\ UNCHANGED boot

\* Variant of AfterJob in which a worker whose payload does not parse
\* returns from worker().
AfterJobWorkerDies(p, parsed) ==
    IF parsed THEN [p EXCEPT !.busy = @ - 1]
    ELSE [p EXCEPT !.busy = @ - 1, !.live = @ - 1]

\* log.Printf("Failed to unmarshal message: %v", err) of processJob, in a run
\* that follows the log.
Logged(l, parsed) == IF metered /\ ~parsed THEN TRUE ELSE l

\* processJob(job): json.Unmarshal, and on an error log.Printf and return;
\* else log.Printf and return. Either way worker() is back in its select.
AfterJob(p, parsed) == [p EXCEPT !.busy = @ - 1]

\* processJob returns (the payload parsed or not) and the worker is back in
\* its select.
WorkerDone(t) ==
    /\ pool[t].busy > 0
    /\ \E parsed \in BOOLEAN :
         /\ pool' = [pool EXCEPT ![t] = AfterJob(@, parsed)]
         /\ parseErrors' = Logged(parseErrors, parsed)
    /\ UNCHANGED <<storeVars, brokerVars, registryVars, mu, consumer, call,
                   nextId, histVars, gauge, budget, deletedOk>>
    /\ UNCHANGED boot

\* Variant of WorkerQuit in which a worker returns on the closed quit while
\* processJob is still running.
WorkerQuitAbandons(t) ==
    /\ pool[t].quit
    /\ pool[t].live > 0
    /\ pool' = [pool EXCEPT ![t].live = @ - 1]
    /\ UNCHANGED <<storeVars, brokerVars, registryVars, mu, consumer, call,
                   nextId, envVars, budget, deletedOk>>
    /\ UNCHANGED boot

\* worker(): case <-wp.quit on the closed quit: return, and wg.Done(). With a
\* job ready too, select takes either case.
WorkerQuit(t) ==
    /\ pool[t].quit
    /\ pool[t].live - pool[t].busy > 0
    /\ pool' = [pool EXCEPT ![t].live = @ - 1]
    /\ UNCHANGED <<storeVars, brokerVars, registryVars, mu, consumer, call,
                   nextId, envVars, budget, deletedOk>>
    /\ UNCHANGED boot

\* --------------------------------------------------- broker and Consumer
\* RabbitMQ.PublishMessage / a publisher writing to tenant_<t>_queue through
\* the default exchange.
Publish(t) ==
    /\ budget > 0
    /\ QueueName(t) \in queues
    /\ budget' = budget - 1
    /\ msgs' = [msgs EXCEPT ![QueueName(t)] = @ + 1]
    /\ UNCHANGED <<storeVars, queues, registryVars, mu, consumer, pool, call,
                   nextId, envVars, deletedOk>>
    /\ UNCHANGED boot

\* Variant of Submitted in which processMessage returns nil without sending
\* the body to jobQueue.
SubmittedNowhere(len) == len

\* processMessage: select { case pool.jobQueue <- body: return nil;
\* default: return error }, as the length of jobQueue after the call and
\* whether it returned nil.
Submitted(len) == IF len < JobQueueCap THEN len + 1 ELSE len

\* Variant of Accepted in which processMessage reports a full queue while
\* one slot is still free.
AcceptedWithSpareSlot(len) == len + 1 < JobQueueCap

Accepted(len) == len < JobQueueCap

\* The pump goroutine waits in its select: it has just been started, or has
\* settled its last delivery.
AtSelect(t) == consumer[t].pump \in {"idle", "acked", "nacked"}

\* Variant of PumpTake in which the handler submits the body to the pool of
\* whichever tenant is registered, not the pool built with its consumer.
PumpTakeAnyPool(t) ==
    /\ AtSelect(t)
    /\ consumer[t].open
    /\ msgs[QueueName(t)] > 0
    /\ msgs' = [msgs EXCEPT ![QueueName(t)] = @ - 1]
    /\ \E u \in workerPools :
         /\ pool' = [pool EXCEPT ![u].jobQueue = Submitted(@)]
         /\ consumer' = [consumer EXCEPT ![t].pump =
                             IF Accepted(pool[u].jobQueue) THEN "acc" ELSE "rej"]
    /\ UNCHANGED <<storeVars, queues, registryVars, mu, call, nextId,
                   envVars, budget, deletedOk>>
    /\ UNCHANGED boot

\* Consumer.Start's goroutine: case delivery := <-c.deliveries, then
\* handler(delivery.Body), which is processMessage on the pool built with
\* this consumer: "acc" when it returned nil, "rej" when it returned an error.
PumpTake(t) ==
    /\ AtSelect(t)
    /\ consumer[t].open
    /\ msgs[QueueName(t)] > 0
    /\ msgs' = [msgs EXCEPT ![QueueName(t)] = @ - 1]
    /\ pool' = [pool EXCEPT ![t].jobQueue = Submitted(@)]
    /\ consumer' = [consumer EXCEPT ![t].pump =
                        IF Accepted(pool[t].jobQueue) THEN "acc" ELSE "rej"]
    /\ UNCHANGED <<storeVars, queues, registryVars, mu, call, nextId,
                   envVars, budget, deletedOk>>
    /\ UNCHANGED boot

\* The broker's handling of basic.nack(requeue=false) for a message of
\* tenant_<t>_queue: dead-lettered to the target its queue was declared
\* with, else dropped.
DeadLettered(t) ==
    [q \in QueueNames |->
        IF q \in DeadLetterTargets(PrimaryQueueArgs) \cap queues
        THEN msgs[q] + 1 ELSE msgs[q]]

\* Variant of SettleCall in which the pump acks whatever the handler
\* returned.
SettleCallAlwaysAck(result) == "acked"

\* if err := handler(delivery.Body); err != nil { delivery.Nack(false, false)
\* } else { delivery.Ack(false) }: the call made for a handler result.
SettleCall(result) == IF result = "acc" THEN "acked" ELSE "nacked"

\* Consumer.Start's goroutine settles the delivery it holds. On a channel
\* closed meanwhile the call fails, and the broker has requeued the delivery.
PumpSettle(t) ==
    /\ consumer[t].pump \in {"acc", "rej"}
    /\ consumer' = [consumer EXCEPT ![t].pump = SettleCall(@)]
    /\ msgs' = IF consumer[t].open /\ SettleCall(consumer[t].pump) = "nacked"
               THEN DeadLettered(t) ELSE msgs
    /\ UNCHANGED <<storeVars, queues, registryVars, mu, pool, call, nextId,
                   envVars, budget, deletedOk>>
    /\ UNCHANGED boot

\* Consumer.Start's goroutine: case delivery := <-c.deliveries on a stream
\* that has terminated. The closed deliveries channel yields a zero-value
\* delivery at once, and select may take this case although done is closed
\* too: handler(nil) submits the empty body to the pool as it would any other.
PumpZero(t) ==
    /\ AtSelect(t)
    /\ ~consumer[t].open
    /\ pool' = [pool EXCEPT ![t].jobQueue = Submitted(@)]
    /\ consumer' = [consumer EXCEPT ![t].pump =
                        IF Accepted(pool[t].jobQueue) THEN "acc" ELSE "rej"]
    /\ UNCHANGED <<storeVars, brokerVars, registryVars, mu, call, nextId,
                   envVars, budget, deletedOk>>
    /\ UNCHANGED boot

\* The broker closes the channel of tenant t's consumer (connection loss,
\* queue deleted by an operator): the deliveries channel is closed, done is
\* not, and a delivery the pump holds unsettled is requeued.
BrokerClose(t) ==
    /\ consumer[t].made
    /\ consumer[t].open
    /\ consumer' = [consumer EXCEPT ![t].open = FALSE]
    /\ msgs' = RequeuedAtClose(t)
    /\ UNCHANGED <<storeVars, queues, registryVars, mu, pool, call, nextId,
                   envVars, budget, deletedOk>>
    /\ UNCHANGED boot

\* Consumer.Start's goroutine: case <-c.done: return. The goroutine held
\* the last references to a consumer and a pool that are in no map and have
\* no worker left: the collector frees them.
PumpExit(t) ==
    /\ AtSelect(t)
    /\ consumer[t].done
    /\ consumer' = [consumer EXCEPT ![t] =
                        IF t \in consumers THEN [@ EXCEPT !.pump = "exit"]
                        ELSE NoConsumer]
    /\ pool' = [pool EXCEPT ![t] =
                    IF t \notin consumers /\ t \notin workerPools /\ @.live = 0
                    THEN NoPool ELSE @]
    /\ UNCHANGED <<storeVars, brokerVars, registryVars, mu, call, nextId,
                   envVars, budget, deletedOk>>
    /\ UNCHANGED boot

\* ------------------------------------------------------ process restart
\* The ready messages of each queue once the broker has closed every channel
\* of the process: a delivery a pump held unsettled is requeued.
RequeuedAtExit ==
    [q \in QueueNames |->
        IF \E t \in TenantIds : /\ q = QueueName(t)
                                /\ q \in queues
                                /\ consumer[t].open
                                /\ consumer[t].pump \in {"acc", "rej"}
        THEN msgs[q] + 1 ELSE msgs[q]]

\* The process dies (killed, crashed or exited) and is started again over the
\* same store and broker: NewTenantManager calls loadExistingTenants, which
\* begins with ListTenants; when that fails nothing is recovered. The gauge
\* of the new process starts at zero.
Restart ==
    /\ \E listed \in Outcomes :
         boot' = [fresh |-> TRUE, listed |-> listed,
                  todo |-> IF listed THEN tenants ELSE {},
                  declared |-> {}, read |-> {}]
    /\ msgs' = RequeuedAtExit
    /\ consumers' = {}
    /\ workerPools' = {}
    /\ consumer' = [t \in TenantIds |-> NoConsumer]
    /\ pool' = [t \in TenantIds |-> NoPool]
    /\ mu' = {}
    /\ call' = [c \in Calls |-> IdleCall]
    /\ gauge' = 0
    /\ shutdownOk' = FALSE
    /\ UNCHANGED <<storeVars, queues, nextId, fixedVars, parseErrors, budget,
                   deletedOk>>

\* ORDER BY created_at DESC: the tenant created last comes first.
NextListed(todo) == CHOOSE t \in todo : \A u \in todo : u <= t

\* Variant of StillToRecover in which loadExistingTenants returns at the first
\* tenant whose startTenantConsumer fails.
StillToRecoverAborts(todo, t, o) == IF o = "ok" THEN todo \ {t} ELSE {}

\* for _, tenant := range tenants { if err := startTenantConsumer(...); err
\* != nil { log } }: the loop goes on to the next tenant whatever the result.
StillToRecover(todo, t, o) == todo \ {t}

\* loadExistingTenants, one iteration: startTenantConsumer(tenant.ID), whose
\* failure is logged and the tenant skipped.
Recover ==
    /\ boot.todo # {}
    /\ LET t == NextListed(boot.todo) IN
       \E o \in DeclareOutcomes, ok \in Outcomes :
         /\ queues' = queues \cup DeclaredBy(t, o)
         /\ IF o = "ok"
            THEN /\ consumer' = [consumer EXCEPT ![t] =
                                    [NewConsumer EXCEPT !.pump = "idle"]]
                 /\ pool' = [pool EXCEPT ![t] =
                                NewWorkerPool(ReadWorkers(t, ok))]
                 /\ consumers' = consumers \cup {t}
                 /\ workerPools' = workerPools \cup {t}
                 /\ boot' = [boot EXCEPT
                       !.todo = StillToRecover(@, t, o),
                       !.declared = @ \cup {t},
                       !.read = IF ok /\ t \in DOMAIN tenant_configs
                                THEN @ \cup {t} ELSE @]
            ELSE /\ boot' = [boot EXCEPT !.todo = StillToRecover(@, t, o)]
                 /\ UNCHANGED <<consumer, pool, consumers, workerPools>>
    /\ UNCHANGED <<storeVars, msgs, mu, call, nextId, envVars, budget,
                   deletedOk>>

\* --------------------------------------------------------- specifications
CreateTenant(c) ==
    \/ CreateInsert(c)
    \/ CreatePartition(c)
    \/ CreateConfig(c)
    \/ CreateQueue(c)
    \/ CreateRead(c)
    \/ CreateRegister(c)
    \/ CreateStart(c)

DeleteTenant(c) ==
    \/ DeleteLock(c)
    \/ DeleteStopConsumer(c)
    \/ DeleteStopPool(c)
    \/ DeleteWait(c)
    \/ DeleteQueue(c)
    \/ DeleteRow(c)
    \/ DeletePartition(c)

UpdateConcurrency(c) ==
    \/ UpdateStore(c)
    \/ UpdateLock(c)
    \/ UpdateResize(c)
    \/ UpdateSendQuit(c)

Shutdown(c) ==
    \/ ShutdownLock(c)
    \/ ShutdownStopConsumer(c)
    \/ ShutdownStopPool(c)
    \/ ShutdownWait(c)

\* The message path of one tenant.
Traffic(t) ==
    \/ Publish(t)
    \/ PumpTake(t)
    \/ PumpSettle(t)
    \/ WorkerTake(t)
    \/ WorkerDone(t)

\* Tenant lifecycle: control-plane calls one at a time, the goroutines they
\* stop, and process restarts, with failing store and broker steps.
Next ==
    \/ \E c \in Calls :
        \/ CreateTenant(c)
        \/ DeleteTenant(c)
        \/ UpdateConcurrency(c)
        \/ GetTenant(c)
    \/ \E t \in TenantIds :
        \/ WorkerQuit(t)
        \/ PumpExit(t)
    \/ Restart
    \/ Recover

Spec == Init /\ [][Next]_vars

\* Two overlapping control-plane calls over a store and a broker that do not
\* fail.
InitConc == InitWith(2, FALSE)

NextConc ==
    \/ \E c \in Calls :
        \/ CreateTenant(c)
        \/ DeleteTenant(c)
        \/ UpdateConcurrency(c)
    \/ \E t \in TenantIds :
        \/ WorkerQuit(t)
        \/ PumpExit(t)

SpecConc == InitConc /\ [][NextConc]_vars

\* One tenant created and running with the default pool, whose intake is
\* empty or one payload short of full (its workers have not been scheduled
\* since the payloads were accepted); publishers have MaxMsgs messages to
\* send.
Running(m) ==
    /\ tenants = {1}
    /\ partitions = {PartitionName(1)}
    /\ tenant_configs = [t \in {1} |-> defaultWorkers]
    /\ queues = {QueueName(1), DlqName(1)}
    /\ msgs = [q \in QueueNames |-> 0]
    /\ consumers = {1}
    /\ workerPools = {1}
    /\ mu = {}
    /\ consumer = [t \in TenantIds |->
                     IF t = 1 THEN [NewConsumer EXCEPT !.pump = "idle"]
                     ELSE NoConsumer]
    /\ \E len \in {0, JobQueueCap - 1} :
         pool = [t \in TenantIds |->
                   IF t = 1
                   THEN [NewWorkerPool(defaultWorkers) EXCEPT !.jobQueue = len]
                   ELSE NoPool]
    /\ call = [c \in Calls |-> IdleCall]
    /\ nextId = 1
    /\ conc = 1
    /\ faults = FALSE
    /\ budget = MaxMsgs
    /\ deletedOk = {}
    /\ boot = NoBoot
    /\ metered = m
    /\ gauge = 0
    /\ parseErrors = FALSE
    /\ shutdownOk = FALSE
    /\ ddl = NoDdl
    /\ pager = NoPager

InitMsg == Running(FALSE)

NextMsg == \E t \in TenantIds : Traffic(t)

\* The message path of a running tenant.
SpecMsg == InitMsg /\ [][NextMsg]_vars

\* The message path of a running tenant in a run that follows the log.
SpecJob == Running(TRUE) /\ [][NextMsg]_vars

\* One tenant created and running with the default pool and an empty intake.
InitStop ==
    /\ InitMsg
    /\ pool[1].jobQueue = 0

NextStop ==
    \/ \E c \in Calls :
        \/ Shutdown(c)
        \/ DeleteTenant(c)
    \/ \E t \in TenantIds :
        \/ Traffic(t)
        \/ WorkerQuit(t)
        \/ PumpExit(t)
        \/ PumpZero(t)
        \/ BrokerClose(t)

\* Stopping the runtime of a tenant that handles messages: Shutdown and
\* DeleteTenant with the pump and the workers running.
SpecStop == InitStop /\ [][NextStop]_vars

NextDrain ==
    \/ \E c \in Calls :
        \/ Shutdown(c)
        \/ DeleteTenant(c)
    \/ \E t \in TenantIds :
        \/ Traffic(t)
        \/ WorkerQuit(t)
        \/ PumpExit(t)

\* As SpecStop, with a pump that finds done closed the first time it is back
\* in its select after the stop, and a broker that keeps the channel open.
SpecDrain == InitStop /\ [][NextDrain]_vars

NextResize ==
    \/ \E c \in Calls : UpdateConcurrency(c)
    \/ \E t \in TenantIds : Traffic(t)

\* The scheduler lets every goroutine that can run do so: the pump and the
\* workers of a tenant are not starved.
FairResize ==
    \A t \in TenantIds :
        /\ WF_vars(PumpTake(t))
        /\ WF_vars(PumpSettle(t))
        /\ WF_vars(WorkerTake(t))
        /\ WF_vars(WorkerDone(t))

\* Resizing the pool of a running tenant that handles messages.
SpecResize == InitMsg /\ [][NextResize]_vars /\ FairResize

\* The message path of a running tenant whose pump and workers are not
\* starved.
SpecFair == InitMsg /\ [][NextMsg]_vars /\ FairResize

NextShut ==
    \/ \E c \in Calls :
        \/ CreateTenant(c)
        \/ DeleteTenant(c)
        \/ UpdateConcurrency(c)
        \/ Shutdown(c)
    \/ \E t \in TenantIds :
        \/ WorkerQuit(t)
        \/ PumpExit(t)

\* The control plane with Shutdown: calls one at a time over a store and a
\* broker that do not fail, the HTTP server still answering once Shutdown
\* has returned.
SpecShut == InitWith(1, FALSE) /\ [][NextShut]_vars

NextGauge ==
    \/ \E c \in Calls :
        \/ CreateTenant(c)
        \/ DeleteTenant(c)
    \/ \E t \in TenantIds :
        \/ WorkerQuit(t)
        \/ PumpExit(t)
    \/ Restart
    \/ Recover

\* Creating and deleting tenants one call at a time, with failing steps and
\* process restarts, in a run that follows the active_tenants_total gauge.
SpecGauge == InitRun(1, TRUE, TRUE) /\ [][NextGauge]_vars

\* ------------------------------------------------------- partition DDL
\* The characters of tenant id strings: hexadecimal digits and the hyphen.
UuidChars == {"a", "7", "-"}

\* Character strings of length 1..n over cs.
Strings(cs, n) == UNION {[1..k -> cs] : k \in 1..n}

\* The ids uuid.New().String() yields: digits and hyphens.
NewIds == Strings(UuidChars, MaxIdLen)

\* The ids in a DELETE request path that reach DropTenantPartition: those the
\* DELETE on the UUID column tenants.id accepts, which are digits and hyphens,
\* bare or in braces.
PathIds == NewIds \cup {<<"{">> \o s \o <<"}">> : s \in NewIds}

\* strings.ReplaceAll(tenantID, "-", "_")
ReplaceAll(s, old, new) == [i \in DOMAIN s |-> IF s[i] = old THEN new ELSE s[i]]

\* A piece of a statement built by fmt.Sprintf: text of the format string, or
\* a %s filled with safeTenantID or with tenantID itself.
Lit(text) == [from |-> "format", text |-> <<text>>]
Arg(name, chars) == [from |-> name, text |-> chars]

\* The statement of CreateTenantPartition(db, tenantID).
CreateTenantPartitionSql(tenantID) ==
    << Lit("CREATE TABLE IF NOT EXISTS messages_"),
       Arg("safeTenantID", ReplaceAll(tenantID, "-", "_")),
       Lit(" PARTITION OF messages FOR VALUES IN ('"),
       Arg("tenantID", tenantID),
       Lit("');") >>

\* The statement of DropTenantPartition(db, tenantID).
DropTenantPartitionSql(tenantID) ==
    << Lit("DROP TABLE IF EXISTS messages_"),
       Arg("safeTenantID", ReplaceAll(tenantID, "-", "_")),
       Lit(";") >>

\* A call of CreateTenantPartition or DropTenantPartition about to build its
\* statement.
InitDdl ==
    /\ RunStarts(1, FALSE, FALSE)
    /\ pager = NoPager
    /\ ddl \in [fn : {"create"}, id : NewIds, stmt : {<< >>}]
              \cup [fn : {"drop"}, id : PathIds, stmt : {<< >>}]

CreateTenantPartitionCall ==
    /\ ddl.fn = "create"
    /\ ddl.stmt = << >>
    /\ ddl' = [ddl EXCEPT !.stmt = CreateTenantPartitionSql(ddl.id)]
    /\ UNCHANGED <<tenantVars, pager>>

DropTenantPartitionCall ==
    /\ ddl.fn = "drop"
    /\ ddl.stmt = << >>
    /\ ddl' = [ddl EXCEPT !.stmt = DropTenantPartitionSql(ddl.id)]
    /\ UNCHANGED <<tenantVars, pager>>

NextDdl ==
    \/ CreateTenantPartitionCall
    \/ DropTenantPartitionCall

\* The statements the partition functions of package database issue.
SpecDdl == InitDdl /\ [][NextDdl]_vars

\* ------------------------------------------------------------ GetMessages
\* created_at values, in ticks.
Instants == 0..(MaxSeconds * TicksPerSecond - 1)

\* lastMessage.CreatedAt.Format(time.RFC3339): the layout has whole seconds,
\* so the text names the second the instant lies in.
FormatRFC3339(t) == <<"s", t \div TicksPerSecond>>

\* time.Parse(time.RFC3339, *cursor): the instant at the start of the second
\* the text names.
ParseRFC3339(text) == text[2] * TicksPerSecond

\* The rows of the SELECT of GetMessages: the tenant's messages, with a
\* cursor those with created_at < the parsed cursor.
Selected(p) ==
    {m \in DOMAIN p.stored :
        IF p.cursor = << >> THEN TRUE
        ELSE p.stored[m] < ParseRFC3339(p.cursor)}

\* The pages ORDER BY created_at DESC LIMIT limit + 1 and messages[:limit]
\* can give: limit of the selected rows, or all when there are not more,
\* none of them older than a row left out; rows of equal created_at come in
\* any order.
Pages(p) ==
    {P \in SUBSET Selected(p) :
        /\ Cardinality(P) = IF Cardinality(Selected(p)) > p.limit
                            THEN p.limit ELSE Cardinality(Selected(p))
        /\ \A m \in P, o \in Selected(p) \ P : p.stored[m] >= p.stored[o]}

\* created_at of messages[limit-1], the last message of page P.
LastCreatedAt(p, P) ==
    CHOOSE t \in {p.stored[m] : m \in P} : \A m \in P : t <= p.stored[m]

\* A tenant with up to MaxStored stored messages and a client about to ask
\* for the first page with a limit of 1..MaxLimit and no cursor.
InitPager ==
    /\ RunStarts(1, FALSE, FALSE)
    /\ ddl = NoDdl
    /\ \E n \in 0..MaxStored, L \in 1..MaxLimit :
         \E created \in [1..n -> Instants] :
            pager = [stored |-> created, limit |-> L, cursor |-> << >>,
                     asked |-> 0, got |-> [m \in 1..n |-> 0], page |-> {},
                     more |-> TRUE]

\* GetMessages(tenantID, cursor, limit), called with the next_cursor of the
\* page before: the page, and next_cursor when limit + 1 rows were selected.
GetMessages ==
    /\ pager.more
    /\ \E P \in Pages(pager) :
         pager' = [pager EXCEPT
            !.asked = @ + 1,
            !.page = P,
            !.got = [m \in DOMAIN @ |-> IF m \in P THEN @[m] + 1 ELSE @[m]],
            !.more = Cardinality(Selected(pager)) > pager.limit,
            !.cursor = IF Cardinality(Selected(pager)) > pager.limit
                       THEN FormatRFC3339(LastCreatedAt(pager, P))
                       ELSE << >>]
    /\ UNCHANGED <<tenantVars, ddl>>

NextPager == GetMessages

\* A client following next_cursor through the messages of one tenant.
SpecPager == InitPager /\ [][NextPager]_vars

NextApi ==
    \/ \E c \in Calls :
        \/ CreateTenant(c)
        \/ DeleteTenant(c)
        \/ UpdateRequest(c)
        \/ UpdateLock(c)
        \/ UpdateResize(c)
        \/ UpdateSendQuit(c)
    \/ \E t \in TenantIds :
        \/ WorkerQuit(t)
        \/ PumpExit(t)

\* The tenant routes served one request at a time over a store and a broker
\* that do not fail, with concurrency updates as the handler receives them.
SpecApi == InitWith(1, FALSE) /\ [][NextApi]_vars

\* ------------------------------------------------------------- properties
\* Call c returns from op with result r in this step.
Returns(c, op, r) ==
    /\ call[c].pc # "done"
    /\ call'[c].pc = "done"
    /\ call'[c].op = op
    /\ call'[c].ret = r

\* No control-plane call and no startup recovery is in progress.
Quiescent == boot.todo = {} /\ \A c \in Calls : ~Active(c)

\* The resources CreateTenant materialises for tenant t.
Materialised(t) ==
    /\ t \in tenants
    /\ PartitionName(t) \in partitions
    /\ t \in DOMAIN tenant_configs
    /\ tenant_configs[t] = defaultWorkers
    /\ QueueName(t) \in queues
    /\ DlqName(t) \in queues
    /\ t \in consumers /\ consumer[t].made
    /\ t \in workerPools /\ pool[t].made

\* C1: when CreateTenant returns success, the tenant row, its message
\* partition, its config row with workers = the default, its primary and
\* dead-letter queues, and one consumer and one worker pool registered under
\* its id all exist.
C1_CreateMaterialises ==
    [][\A c \in Calls, t \in TenantIds :
          (call[c].id = t /\ Returns(c, "create", "ok")) => Materialised(t)']_vars

\* A CreateTenant has just returned success for the newest tenant, whose
\* resources exist.
C1_Witness ==
    \E c \in Calls :
        /\ call[c].op = "create" /\ call[c].pc = "done" /\ call[c].ret = "ok"
        /\ Materialised(nextId)

\* C2: in every state reached by completed CreateTenant, DeleteTenant and
\* UpdateConcurrency calls whose store and broker steps may fail, every
\* persisted tenant has its partition, both its queues, and a config row
\* with workers in 1..100.
C2_PersistedTenantsComplete ==
    Quiescent =>
        \A t \in tenants :
            /\ PartitionName(t) \in partitions
            /\ QueueName(t) \in queues
            /\ DlqName(t) \in queues
            /\ t \in DOMAIN tenant_configs
            /\ tenant_configs[t] \in 1..100

\* C3: once DeleteTenant(id) has returned success, GetTenant(id) finds no
\* row (it returns not-found whenever its query runs, and never the tenant),
\* and id is in neither the consumer nor the worker-pool registry.
C3_DeletedStaysGone ==
    \A t \in deletedOk :
        /\ GetTenantResult(t, TRUE) = "notfound"
        /\ \A ok \in Outcomes : GetTenantResult(t, ok) # "ok"
        /\ t \notin consumers
        /\ t \notin workerPools

\* A tenant was deleted with success, and a GetTenant has returned not-found
\* since.
C3_Witness ==
    /\ deletedOk # {}
    /\ \E c \in Calls :
        /\ call[c].op = "get" /\ call[c].pc = "done"
        /\ call[c].ret = "notfound"

\* A startup recovery has run to its end.
Recovered == boot.fresh /\ boot.todo = {}

\* The runtime of tenant t is a registered consumer and a registered pool of
\* the persisted number of workers.
RuntimeAsPersisted(t) ==
    /\ t \in consumers /\ consumer[t].made /\ consumer[t].pump = "idle"
    /\ t \in workerPools /\ pool[t].made
    /\ pool[t].workers = tenant_configs[t]
    /\ pool[t].live = tenant_configs[t]

C4_PoolMatchesPersisted ==
    Quiescent =>
        \A t \in workerPools \cap DOMAIN tenant_configs :
            pool[t].workers = tenant_configs[t]

\* Tenant t as a CreateTenant, then UpdateConcurrency calls, run one after
\* the other leave it.
Present(t) ==
    /\ t \in tenants
    /\ PartitionName(t) \in partitions
    /\ t \in DOMAIN tenant_configs
    /\ {QueueName(t), DlqName(t)} \subseteq queues
    /\ t \in consumers
    /\ t \in workerPools
    /\ pool[t].workers = tenant_configs[t]

\* Tenant t as a DeleteTenant run after them leaves it.
Absent(t) ==
    /\ t \notin tenants
    /\ PartitionName(t) \notin partitions
    /\ t \notin DOMAIN tenant_configs
    /\ {QueueName(t), DlqName(t)} \cap queues = {}
    /\ t \notin consumers
    /\ t \notin workerPools

\* C6: control-plane operations on one tenant are serialized: once the calls
\* have completed, the store, broker and registry state of every tenant is
\* one that the calls run one after the other produce (the tenant complete,
\* with its pool at the persisted size, or gone altogether).
C6_SerialOutcome ==
    Quiescent => \A t \in KnownIds : Present(t) \/ Absent(t)

\* The program counters at which a call waits for tm.mu.
LockWaits == {"u_lock", "c_register"}

\* C7: control-plane operations on different tenants are independent: a call
\* on one tenant never waits for a call on another tenant to finish.
C7_NoCrossTenantWait ==
    \A c \in Calls, d \in mu :
        call[c].pc \in LockWaits => call[d].id = call[c].id

\* The pump of tenant t takes a delivery and submits it in this step.
Takes(t) ==
    /\ consumer'[t].pump \in {"acc", "rej"}
    /\ consumer'[t].pump # consumer[t].pump

\* The pump of tenant t settles the delivery it holds in this step.
Settles(t) ==
    /\ consumer[t].pump \in {"acc", "rej"}
    /\ consumer'[t].pump # consumer[t].pump

\* C8: the intake of a pool never holds more than 100 payloads; a delivery
\* is nacked, and not requeued, if and only if the intake held exactly 100 payloads when it was
\* submitted; and a submission never blocks the pump: with a delivery ready
\* it proceeds whatever the intake holds.
C8_IntakeBound ==
    /\ [](\A t \in TenantIds :
            /\ pool[t].jobQueue <= JobQueueCap
            /\ (AtSelect(t) /\ consumer[t].open /\ msgs[QueueName(t)] > 0)
                    => ENABLED PumpTake(t))
    /\ [][\A t \in TenantIds :
            /\ Takes(t) =>
                 (consumer'[t].pump = "rej" <=> pool[t].jobQueue = JobQueueCap)
            /\ Settles(t) =>
                 /\ consumer'[t].pump = "nacked" <=> consumer[t].pump = "rej"
                 /\ msgs'[QueueName(t)] = msgs[QueueName(t)]
         ]_vars

\* A delivery submitted to a full intake has been nacked, and the intake is
\* still full.
C8_Witness ==
    \E t \in TenantIds :
        /\ consumer[t].pump = "nacked"
        /\ pool[t].jobQueue = JobQueueCap

\* C9: every delivery of tenant_T_queue that the pump negatively acknowledges
\* without requeue ends up in tenant_T_dlq.
C9_NackedReachDlq ==
    [][\A t \in TenantIds :
          (Settles(t) /\ consumer'[t].pump = "nacked") =>
              msgs'[DlqName(t)] = msgs[DlqName(t)] + 1]_vars

\* C10: every delivery the pump takes gets exactly one outcome before the
\* next is taken, an ack or a nack; it is acked only if its body was placed
\* in the intake, and the ack follows that enqueue without waiting for a
\* worker to handle the payload.
C10_OneOutcome ==
    [][\A t \in TenantIds :
          /\ Takes(t) =>
               /\ AtSelect(t)
               /\ msgs'[QueueName(t)] = msgs[QueueName(t)] - 1
               /\ (consumer'[t].pump = "acc" =>
                       pool'[t].jobQueue = pool[t].jobQueue + 1)
          /\ Settles(t) =>
               /\ consumer'[t].pump =
                    (IF consumer[t].pump = "acc" THEN "acked" ELSE "nacked")
               /\ pool'[t] = pool[t]
          /\ (consumer'[t].pump \in {"acked", "nacked"}
                  /\ consumer'[t].pump # consumer[t].pump) => Settles(t)
      ]_vars

\* A delivery has been acked while its payload, like every payload accepted
\* so far, is still in the intake and no worker has run a handler.
C10_Witness ==
    \E t \in TenantIds :
        /\ consumer[t].pump = "acked"
        /\ pool[t].jobQueue > 0
        /\ pool[t].busy = 0
\* Call c, in progress, takes a step of its own.
StepOf(c) ==
    /\ Active(c)
    /\ call'[c] # call[c]
    /\ call'[c].op = call[c].op

\* C11: Shutdown returns only after every handler that was running on a
\* worker of a registered pool has returned: when it returns, and for as long
\* as its result stands, no worker of a registered pool is inside a handler
\* or still running.
C11_ShutdownWaitsForHandlers ==
    /\ [][\A c \in Calls :
            Returns(c, "shutdown", "ok") =>
                \A t \in workerPools :
                    pool'[t].busy = 0 /\ pool'[t].live = 0]_vars
    /\ [](\A c \in Calls :
            (call[c].op = "shutdown" /\ call[c].pc = "done"
                /\ call[c].ret = "ok") =>
                \A t \in workerPools : pool[t].busy = 0)

\* Shutdown waits in WorkerPool.Stop for a pool a worker of which is inside
\* a handler.
C11_Witness ==
    \E c \in Calls :
        /\ call[c].op = "shutdown" /\ call[c].pc = "s_wait"
        /\ pool[call[c].id].busy > 0

\* Every delivery the pump of tenant t took has been acknowledged: none was
\* unsettled when the channel closed, and so none is back in the queue.
AllAcknowledged(t) == msgs[QueueName(t)] = 0

\* C12: Shutdown and the runtime stop of DeleteTenant lose no delivery: when
\* Shutdown returns, and when DeleteTenant has stopped the pool, no payload
\* of an acknowledged delivery is left in the intake.
C12_StopDrainsIntake ==
    [][\A c \in Calls :
          /\ Returns(c, "shutdown", "ok") =>
                \A t \in workerPools :
                    AllAcknowledged(t) => pool'[t].jobQueue = 0
          /\ (call[c].op = "delete" /\ call[c].pc = "d_wait" /\ StepOf(c)) =>
                (AllAcknowledged(call[c].id) =>
                    pool[call[c].id].jobQueue = 0)]_vars

\* C13: a resize drops nothing: a payload leaves the intake only by being
\* handed to one worker, whether a submission is accepted depends only on
\* whether the intake is full, and the intake is always drained in the end.
C13_ResizeDropsNothing ==
    /\ [][\A t \in TenantIds :
            /\ pool'[t].jobQueue < pool[t].jobQueue =>
                 /\ pool'[t].jobQueue = pool[t].jobQueue - 1
                 /\ pool'[t].busy = pool[t].busy + 1
            /\ Takes(t) =>
                 /\ consumer'[t].pump = "acc" <=> pool[t].jobQueue < JobQueueCap
                 /\ consumer'[t].pump = "acc" =>
                        pool'[t].jobQueue = pool[t].jobQueue + 1
         ]_vars
    /\ \A t \in TenantIds : pool[t].jobQueue > 0 ~> pool[t].jobQueue = 0

\* A shrink is under way (a quit signal is still to be taken) while the
\* intake holds payloads and a delivery is being submitted.
C13_Witness ==
    \E c \in Calls :
        /\ call[c].pc = "u_send"
        /\ pool[call[c].id].jobQueue > 0
        /\ consumer[call[c].id].pump = "acc"

\* C14: UpdateWorkers(n) on a running pool of d workers spawns exactly n - d
\* workers when n > d, changes nothing when n = d, and when n < d sends
\* exactly d - n quit signals, each taken by a worker that is between jobs;
\* when the call returns the pool's workers value and the number of its
\* running workers are n.
C14_UpdateWorkersExact ==
    [][\A c \in Calls, t \in TenantIds :
          (call[c].op = "update" /\ call[c].id = t /\ StepOf(c)) =>
             /\ call[c].pc = "u_resize" =>
                  /\ call[c].n > pool[t].workers =>
                       /\ pool'[t].live =
                            pool[t].live + (call[c].n - pool[t].workers)
                       /\ Returns(c, "update", "ok")
                  /\ call[c].n = pool[t].workers =>
                       /\ pool'[t] = pool[t]
                       /\ Returns(c, "update", "ok")
                  /\ call[c].n < pool[t].workers =>
                       /\ pool'[t] = pool[t]
                       /\ call'[c].pc = "u_send"
                       /\ call'[c].k = pool[t].workers - call[c].n
             /\ call[c].pc = "u_send" =>
                  /\ pool[t].live - pool[t].busy > 0
                  /\ pool'[t].live = pool[t].live - 1
                  /\ pool'[t].busy = pool[t].busy
                  /\ pool'[t].jobQueue = pool[t].jobQueue
                  /\ Returns(c, "update", "ok") <=> call[c].k = 1
             /\ Returns(c, "update", "ok") =>
                  /\ pool'[t].workers = call[c].n
                  /\ pool'[t].live = call[c].n
      ]_vars

\* The pool has been grown above the default, and an UpdateConcurrency has
\* returned.
C14_Witness ==
    /\ \E c \in Calls :
         call[c].op = "update" /\ call[c].pc = "done" /\ call[c].ret = "ok"
    /\ \E t \in workerPools :
         pool[t].workers # defaultWorkers /\ pool[t].live = pool[t].workers

\* C15: WorkerPool.Stop is idempotent, and so a second Shutdown of the
\* manager completes normally: no Shutdown ends in a panic.
C15_ShutdownNeverPanics ==
    \A c \in Calls :
        (call[c].op = "shutdown" /\ call[c].pc = "done") => call[c].ret = "ok"

\* C16: once Stop has been called on a pool, every later submission to it is
\* rejected: no payload enters its intake.
C16_NoAcceptAfterStop ==
    [][\A t \in TenantIds :
          pool[t].quit => pool'[t].jobQueue <= pool[t].jobQueue]_vars

\* C17: once the delivery stream of a consumer has terminated, its pump
\* submits no further payload to the pool.
C17_PumpStopsWithStream ==
    [][\A t \in TenantIds :
          (consumer[t].made /\ ~consumer[t].open) => ~Takes(t)]_vars

\* Call c of op answers r in this step, which may be its first.
Answers(c, op, r) ==
    /\ call'[c] # call[c]
    /\ call'[c] = Returned(op, r)

\* C18: UpdateConcurrency writes the store before it touches the pool: a
\* call that answers with an error or not-found has changed no pool, no
\* registry entry and no row; a pool is resized only when the row holds the
\* new value; and without a registry entry the call succeeds with only the
\* store changed.
C18_StoreBeforePool ==
    [][\A c \in Calls :
          /\ (Answers(c, "update", "err") \/ Answers(c, "update", "notfound"))
                => UNCHANGED <<pool, consumers, workerPools, tenant_configs>>
          /\ \A t \in TenantIds :
               (call[c].op = "update" /\ call[c].id = t /\ StepOf(c)) =>
                  /\ pool'[t] # pool[t] =>
                       /\ t \in DOMAIN tenant_configs
                       /\ tenant_configs[t] = call[c].n
                  /\ (call[c].pc = "u_lock" /\ t \notin workerPools) =>
                       /\ Returns(c, "update", "ok")
                       /\ t \in DOMAIN tenant_configs
                       /\ tenant_configs[t] = call[c].n
                       /\ UNCHANGED <<pool, consumers, workerPools,
                                      tenant_configs>>
      ]_vars

\* An UpdateConcurrency has answered not-found although the tenant has a
\* registered pool, which still has the default number of workers.
C18_Witness ==
    \E c \in Calls, t \in workerPools :
        /\ call[c].op = "update" /\ call[c].pc = "done"
        /\ call[c].ret = "notfound"
        /\ t \notin DOMAIN tenant_configs
        /\ pool[t].workers = defaultWorkers

\* C19: DeleteTenant returns an error exactly when the deletion of the
\* tenant row fails: after the queue deletion, whatever it deleted, the row
\* is deleted; after the row, whatever happens to the partition, the call
\* returns nil.
C19_DeleteFailsOnlyOnRow ==
    [][\A c \in Calls, t \in TenantIds :
          (call[c].op = "delete" /\ call[c].id = t /\ StepOf(c)) =>
             /\ call[c].pc = "d_queue" => call'[c].pc = "d_row"
             /\ call[c].pc = "d_row" =>
                  \/ call'[c].pc = "d_partition" /\ t \notin tenants'
                  \/ Returns(c, "delete", "err") /\ tenants' = tenants
             /\ call[c].pc = "d_partition" => Returns(c, "delete", "ok")
             /\ Returns(c, "delete", "err") => call[c].pc = "d_row"
             /\ Returns(c, "delete", "ok") =>
                  call[c].pc = "d_partition" /\ t \notin tenants
      ]_vars

\* A DeleteTenant has returned nil although a queue or the partition of the
\* tenant could not be removed.
C19_Witness ==
    \E t \in deletedOk :
        \/ QueueName(t) \in queues
        \/ DlqName(t) \in queues
        \/ PartitionName(t) \in partitions

\* The order of the steps of DeleteTenant.
DeleteOrder ==
    <<"d_consumer", "d_pool", "d_wait", "d_queue", "d_row", "d_partition",
      "done">>

DeletePos(pc) == CHOOSE i \in DOMAIN DeleteOrder : DeleteOrder[i] = pc

\* The durable state of tenant t: its row, config row, partition and queues.
Durable(t) ==
    <<t \in tenants, t \in DOMAIN tenant_configs,
      PartitionName(t) \in partitions,
      {QueueName(t), DlqName(t)} \cap queues>>

\* C20: DeleteTenant works under the registry lock and in the order consumer
\* stop, pool stop (waiting for the workers), queues, row, partition: durable
\* state of the tenant is removed only once its consumer is stopped and its
\* workers have returned, and a registry entry is removed only when the stop
\* it stands for has completed.
C20_DeleteOrder ==
    [][\A c \in Calls, t \in TenantIds :
          (call[c].op = "delete" /\ call[c].id = t /\ StepOf(c)) =>
             /\ c \in mu
             /\ DeletePos(call'[c].pc) > DeletePos(call[c].pc)
             /\ Durable(t)' # Durable(t) =>
                  /\ call[c].pc \in {"d_queue", "d_row", "d_partition"}
                  /\ ~consumer[t].open
                  /\ pool[t].live = 0
                  /\ t \notin consumers
                  /\ t \notin workerPools
             /\ (t \in consumers /\ t \notin consumers') =>
                  consumer'[t].done /\ ~consumer'[t].open
             /\ (t \in workerPools /\ t \notin workerPools') =>
                  pool[t].quit /\ pool[t].live = 0
      ]_vars

\* A DeleteTenant that has stopped a running consumer and pool and deleted
\* the queues is about to delete the row.
C20_Witness ==
    \E c \in Calls :
        /\ call[c].op = "delete" /\ call[c].pc = "d_row"
        /\ consumer[call[c].id].done
        /\ pool[call[c].id].quit /\ pool[call[c].id].live = 0
        /\ call[c].id \notin consumers \cup workerPools
        /\ QueueName(call[c].id) \notin queues
        /\ call[c].id \in tenants
\* A step of startup recovery: loadExistingTenants has dealt with a tenant.
RecoverStep ==
    /\ boot.todo # {}
    /\ boot'.listed
    /\ boot'.todo \subseteq boot.todo
    /\ boot'.todo # boot.todo

\* C21: each iteration of startup recovery deals with the next listed tenant
\* and with no other: the store is left as it is, the tenant gets its
\* registry entries, consumer and pool when its queues were declared and its
\* stream opened, and no registry entry otherwise, and in both cases the
\* remaining listed tenants are still to be recovered. This holds for every
\* restart, so a tenant skipped by one is recovered by a later one in which
\* the declaration succeeds.
C21_RecoverySkipsUndeclared ==
    [][RecoverStep =>
        \A t \in TenantIds : t = NextListed(boot.todo) =>
            /\ boot'.todo = boot.todo \ {t}
            /\ UNCHANGED storeVars
            /\ consumers' \ {t} = consumers \ {t}
            /\ workerPools' \ {t} = workerPools \ {t}
            /\ IF t \in boot'.declared
               THEN /\ t \in consumers' /\ t \in workerPools'
                    /\ consumer'[t].made /\ consumer'[t].pump = "idle"
                    /\ pool'[t].made /\ pool'[t].live = pool'[t].workers
               ELSE /\ t \notin consumers' /\ t \notin workerPools'
                    /\ consumer'[t] = consumer[t]
                    /\ pool'[t] = pool[t]]_vars

\* A recovery is over in which the tenant listed first was skipped with its
\* row and config still stored, and the tenant listed after it was recovered.
C21_Witness ==
    /\ boot.fresh /\ boot.listed /\ boot.todo = {}
    /\ \E t, u \in tenants :
         /\ u < t
         /\ t \in DOMAIN tenant_configs
         /\ t \notin boot.declared
         /\ t \notin consumers /\ t \notin workerPools
         /\ u \in boot.declared
         /\ u \in consumers /\ u \in workerPools

\* C22: ListTenants returns exactly the tenants whose CreateTenant returned
\* success and whose DeleteTenant has not since returned success, and
\* GetTenant succeeds exactly for those: a tenant is listed and found once its
\* CreateTenant returns success, is neither when its CreateTenant returns an
\* error, and is neither once no call is in progress after its DeleteTenant
\* returned success.
C22_ListIsCreatedMinusDeleted ==
    [][\A c \in Calls, t \in TenantIds :
        /\ (call[c].id = t /\ Returns(c, "create", "ok")) =>
              /\ t \in ListTenantsResult'
              /\ GetTenantResult(t, TRUE)' = "ok"
        /\ (call[c].id = t /\ Returns(c, "create", "err")) =>
              /\ t \notin ListTenantsResult'
              /\ GetTenantResult(t, TRUE)' = "notfound"
        /\ (Quiescent' /\ t \in deletedOk') =>
              /\ t \notin ListTenantsResult'
              /\ GetTenantResult(t, TRUE)' = "notfound"]_vars

\* A concurrency update request arrives on slot c in this step.
UpdateArrives(c) ==
    /\ ~Active(c)
    /\ call'[c] # call[c]
    /\ call'[c].op = "update"

\* C23: a concurrency update whose workers value is outside 1..100 is
\* answered 400 without the manager being called, and one with a valid value
\* for an id without a config row is answered 404; both leave every config
\* row, pool and registry entry as they were. Only a valid value for an id
\* with a row is stored.
C23_InvalidUpdateChangesNothing ==
    [][\A c \in Calls : UpdateArrives(c) =>
        IF call'[c].n \notin 1..100
        THEN /\ call'[c].pc = "done"
             /\ UpdateStatus(call'[c].ret) = 400
             /\ UNCHANGED <<storeVars, registryVars, pool, mu>>
        ELSE IF call'[c].id \notin DOMAIN tenant_configs
        THEN /\ call'[c].pc = "done"
             /\ UpdateStatus(call'[c].ret) = 404
             /\ UNCHANGED <<storeVars, registryVars, pool, mu>>
        ELSE /\ call'[c].pc = "u_lock"
             /\ tenant_configs' =
                  [tenant_configs EXCEPT ![call'[c].id] = call'[c].n]]_vars

\* A request for 101 workers was answered 400 while the tenant it names runs
\* with its default pool and config.
C23_Witness ==
    \E c \in Calls :
        /\ call[c].op = "update" /\ call[c].pc = "done"
        /\ call[c].ret = "badrequest" /\ call[c].n = 101
        /\ call[c].id \in workerPools
        /\ pool[call[c].id].workers = defaultWorkers
        /\ tenant_configs[call[c].id] = defaultWorkers

\* C24: deletion is final: once DeleteTenant(id) has returned success there
\* is, in every later state, no tenant row, no config row, no broker queue
\* and no registry entry for id, whatever calls were in progress when it
\* returned.
C24_DeletionIsFinal ==
    \A t \in deletedOk :
        /\ t \notin tenants
        /\ t \notin DOMAIN tenant_configs
        /\ QueueName(t) \notin queues
        /\ DlqName(t) \notin queues
        /\ t \notin consumers
        /\ t \notin workerPools

\* The registry maps have the same keys, each with its consumer and its pool.
MapsAgree ==
    /\ consumers = workerPools
    /\ \A t \in consumers : consumer[t].made /\ pool[t].made

\* C25: whenever tm.mu is not held the consumers map and the workerPools map
\* have the same keys, each key with one consumer and one pool, and a step
\* changes a map only when the call taking it holds the lock, or takes and
\* releases the free lock within the step (the two stores of
\* startTenantConsumer).
C25_RegistryLocked ==
    [][/\ mu = {} => MapsAgree
       /\ mu' = {} => MapsAgree'
       /\ registryVars' # registryVars =>
             \E c \in Calls :
                /\ StepOf(c)
                /\ IF call[c].pc = "c_register"
                   THEN mu = {} /\ mu' = {}
                   ELSE mu = {c}]_vars

\* The lock is free after a tenant was deleted under it and while another
\* tenant is registered.
C25_Witness ==
    /\ mu = {}
    /\ deletedOk # {}
    /\ consumers # {}
    /\ MapsAgree
    /\ \E c \in Calls : Active(c)

\* The characters of an unquoted SQL identifier.
IdentifierChars == {"a", "7", "_"}

\* C26: the statement CreateTenantPartition or DropTenantPartition issues
\* carries the tenant id only transformed, as identifier characters: no %s is
\* filled with tenantID itself, and every filled %s holds identifier
\* characters only.
C26_DdlCarriesSafeIdOnly ==
    \A i \in DOMAIN ddl.stmt :
        ddl.stmt[i].from # "format" =>
            /\ ddl.stmt[i].from # "tenantID"
            /\ \A k \in DOMAIN ddl.stmt[i].text :
                  ddl.stmt[i].text[k] \in IdentifierChars

\* C27: following next_cursor from a first request without cursor returns
\* every message of the tenant exactly once: no message is returned twice,
\* a page has at most limit messages, and once a page comes without
\* next_cursor every stored message has been returned.
C27_PagingComplete ==
    /\ \A m \in DOMAIN pager.got : pager.got[m] <= 1
    /\ Cardinality(pager.page) <= pager.limit
    /\ (pager.asked > 0 /\ ~pager.more) =>
          \A m \in DOMAIN pager.got : pager.got[m] = 1

\* C28: whenever no call and no recovery is in progress the
\* active_tenants_total gauge is the number of tenants that have a runtime,
\* and it is never negative.
C28_GaugeCountsRuntimes ==
    /\ gauge >= 0
    /\ Quiescent => gauge = Cardinality(consumers)

\* A handler running on a worker of tenant t returns in this step.
HandlerReturns(t) == pool'[t].busy < pool[t].busy

CreateOrder ==
    <<"c_partition", "c_config", "c_queue", "c_read", "c_register", "c_start",
      "done">>

CreatePcs == {CreateOrder[i] : i \in DOMAIN CreateOrder}

CreatePos(pc) == CHOOSE i \in DOMAIN CreateOrder : CreateOrder[i] = pc

\* What the step CreateTenant(t) takes at pc has done when it succeeded.
CreateStepDone(pc, t) ==
    CASE pc = "c_partition" -> PartitionName(t) \in partitions
      [] pc = "c_config" -> t \in DOMAIN tenant_configs
      [] pc = "c_queue" -> /\ {QueueName(t), DlqName(t)} \subseteq queues
                           /\ consumer[t].made
      [] pc = "c_register" -> /\ t \in consumers /\ t \in workerPools
                              /\ pool[t].made
      [] pc = "c_start" -> consumer[t].pump = "idle"
      [] OTHER -> TRUE

\* C30: CreateTenant inserts the tenant row, creates the partition, inserts
\* the config row, declares the queues and opens the stream, and builds the
\* pool and registers the runtime, in this order. A step that fails ends the
\* call with an error at once: the store and the registry are as the step
\* found them, no queue declared so far is deleted, and the tenant has no
\* registry entry. No step removes a row, a partition or a queue.
C30_CreateStepsInOrder ==
    [][\A c \in Calls :
        /\ (~Active(c) /\ call'[c] # call[c] /\ call'[c].op = "create") =>
              IF call'[c].pc = "done"
              THEN call'[c].ret = "err" /\ UNCHANGED <<storeVars, brokerVars,
                                                       registryVars>>
              ELSE /\ call'[c].pc = CreateOrder[1]
                   /\ tenants' = tenants \cup {call'[c].id}
                   /\ UNCHANGED <<partitions, tenant_configs, brokerVars,
                                  registryVars>>
        /\ \A t \in TenantIds, pc \in CreatePcs :
             (StepOf(c) /\ call[c].op = "create" /\ call[c].id = t
                        /\ call[c].pc = pc) =>
                /\ tenants \subseteq tenants'
                /\ partitions \subseteq partitions'
                /\ DOMAIN tenant_configs \subseteq DOMAIN tenant_configs'
                /\ queues \subseteq queues'
                /\ IF call'[c].pc = "done" /\ call'[c].ret # "ok"
                   THEN /\ call'[c].ret = "err"
                        /\ UNCHANGED <<storeVars, registryVars, consumer, pool>>
                        /\ t \notin consumers' /\ t \notin workerPools'
                   ELSE /\ CreatePos(call'[c].pc) = CreatePos(pc) + 1
                        /\ CreateStepDone(pc, t)']_vars

\* A CreateTenant has returned an error from its config insert: the tenant
\* row and the partition it made are still there, and the tenant has no
\* config row, no queue and no registry entry.
C30_Witness ==
    \E c \in Calls, t \in TenantIds :
        /\ call[c].op = "create" /\ call[c].pc = "done"
        /\ call[c].ret = "err"
        /\ t = nextId
        /\ t \in tenants
        /\ PartitionName(t) \in partitions
        /\ t \notin DOMAIN tenant_configs
        /\ QueueName(t) \notin queues
        /\ t \notin consumers /\ t \notin workerPools

\* The pool of tenant t is stopped in this step: its quit channel is closed.
PoolStops(t) == ~pool[t].quit /\ pool'[t].quit

\* C31: whenever the pool of a tenant is stopped, by DeleteTenant or by
\* Shutdown, Stop has been called on the tenant's consumer before (a
\* consumer still registered is one whose done is closed; DeleteTenant has
\* removed the one it stopped); and when Shutdown stops a pool it has called
\* Stop on every registered consumer.
C31_ConsumerStopsFirst ==
    [][\A t \in TenantIds : PoolStops(t) =>
        /\ t \in consumers => consumer[t].done
        /\ \A c \in Calls :
              (call[c].op = "delete" /\ StepOf(c)) =>
                  call[c].pc = "d_pool" /\ t \notin consumers
        /\ \A c \in Calls :
              (call[c].op = "shutdown" /\ StepOf(c)) =>
                  \A u \in consumers : consumer[u].done]_vars

\* Shutdown has stopped the consumers of two tenants and the pool of one of
\* them, for whose workers it waits; the other pool is not stopped yet.
C31_Witness ==
    \E c \in Calls, u \in workerPools :
        /\ call[c].op = "shutdown" /\ call[c].pc = "s_wait"
        /\ call[c].id # u
        /\ pool[call[c].id].quit
        /\ ~pool[u].quit
        /\ consumer[u].done /\ consumer[call[c].id].done

\* C32: on a running pool every accepted payload enters the intake, leaves
\* it by being handed to one worker, whose handler returns once for it, and
\* in the end every accepted payload has been handled; a delivery submitted
\* while the intake holds fewer than 100 payloads is accepted and acked, and
\* nothing reaches the dead-letter queue.
C32_AcceptedAreHandled ==
    /\ [][\A t \in TenantIds :
            /\ Takes(t) =>
                 /\ pool[t].jobQueue < JobQueueCap => consumer'[t].pump = "acc"
                 /\ consumer'[t].pump = "acc" =>
                        /\ pool'[t].jobQueue = pool[t].jobQueue + 1
                        /\ pool'[t].busy = pool[t].busy
            /\ Settles(t) =>
                 (consumer[t].pump = "acc" => consumer'[t].pump = "acked")
            /\ pool'[t].jobQueue < pool[t].jobQueue =>
                 /\ pool'[t].jobQueue + pool'[t].busy
                        = pool[t].jobQueue + pool[t].busy
                 /\ pool'[t].busy = pool[t].busy + 1
            /\ pool'[t].busy < pool[t].busy =>
                 /\ pool'[t].busy = pool[t].busy - 1
                 /\ pool'[t].jobQueue = pool[t].jobQueue
            /\ msgs'[DlqName(t)] = 0
         ]_vars
    /\ \A t \in TenantIds :
         (pool[t].jobQueue + pool[t].busy > 0)
            ~> (pool[t].jobQueue = 0 /\ pool[t].busy = 0)

\* Every message published to the queue of a pool that began with an empty
\* intake was delivered and acked, every payload has been handled, and the
\* dead-letter queue is empty.
C32_Witness ==
    /\ budget = 0
    /\ msgs[QueueName(1)] = 0
    /\ msgs[DlqName(1)] = 0
    /\ consumer[1].pump = "acked"
    /\ pool[1].jobQueue = 0 /\ pool[1].busy = 0
    /\ pool[1].live = pool[1].workers

\* C33: every tenant id with a registry entry, consumer or pool, has a row
\* in table tenants, in every state and under every interleaving of
\* CreateTenant, DeleteTenant and UpdateConcurrency.
C33_RegisteredArePersisted ==
    \A t \in consumers \cup workerPools : t \in tenants

\* C34: over any sequence of CreateTenant, UpdateConcurrency, DeleteTenant and
\* Shutdown calls no call closes a done or quit channel that is already closed
\* and none sends on a closed quit channel: no call ends in that panic.
C34_StoppedOnce ==
    \A c \in Calls : call[c].pc = "done" => call[c].ret # "panic"

\* C35: once Shutdown has returned, no consumer pump and no worker of any
\* tenant runs in any later state, whatever calls arrive afterwards.
C35_NothingRunsAfterShutdown ==
    shutdownOk =>
        \A t \in TenantIds :
            /\ consumer[t].pump \in {"none", "exit"}
            /\ pool[t].live = 0

\* ------------------------------------------------------ tenant isolation
\* fmt.Sprintf("tenant_%s_queue", tenantID), character by character.
queueName(tenantID) ==
    <<"t", "e", "n", "a", "n", "t", "_">> \o tenantID
        \o <<"_", "q", "u", "e", "u", "e">>

\* fmt.Sprintf("tenant_%s_dlq", tenantID), character by character.
dlqName(tenantID) ==
    <<"t", "e", "n", "a", "n", "t", "_">> \o tenantID \o <<"_", "d", "l", "q">>

\* The table name in the statement of CreateTenantPartition: messages_
\* followed by safeTenantID.
partitionName(tenantID) ==
    <<"m", "e", "s", "s", "a", "g", "e", "s", "_">>
        \o CreateTenantPartitionSql(tenantID)[2].text

\* The names startTenantConsumer and CreateTenantPartition derive from an id.
NamesOf(tenantID) ==
    {queueName(tenantID), dlqName(tenantID), partitionName(tenantID)}

\* Every tenant created and running with the default pool and an empty
\* intake, publishers with MaxMsgs messages to send, and CreateTenantPartition
\* about to build its statement for an id of uuid.New().
InitPair ==
    /\ tenants = TenantIds
    /\ partitions = {PartitionName(t) : t \in TenantIds}
    /\ tenant_configs = [t \in TenantIds |-> defaultWorkers]
    /\ queues = QueueNames
    /\ msgs = [q \in QueueNames |-> 0]
    /\ consumers = TenantIds
    /\ workerPools = TenantIds
    /\ mu = {}
    /\ consumer = [t \in TenantIds |-> [NewConsumer EXCEPT !.pump = "idle"]]
    /\ pool = [t \in TenantIds |-> NewWorkerPool(defaultWorkers)]
    /\ call = [c \in Calls |-> IdleCall]
    /\ nextId = MaxTenants
    /\ conc = 1
    /\ faults = FALSE
    /\ budget = MaxMsgs
    /\ deletedOk = {}
    /\ boot = NoBoot
    /\ metered = FALSE
    /\ gauge = 0
    /\ parseErrors = FALSE
    /\ shutdownOk = FALSE
    /\ ddl \in [fn : {"create"}, id : NewIds, stmt : {<< >>}]
    /\ pager = NoPager

NextPair ==
    \/ \E t \in TenantIds : Traffic(t)
    \/ CreateTenantPartitionCall

\* The message paths of all tenants side by side.
SpecPair == InitPair /\ [][NextPair]_vars

\* C36: a delivery taken from the queue of tenant t is submitted to the pool
\* built for t and to no other: the step changes no other queue and no other
\* pool, and a pool's intake grows only by a delivery of its own queue; and
\* two distinct tenant ids never share a primary-queue, dead-letter-queue or
\* partition name.
C36_TenantIsolation ==
    /\ [][\A t \in TenantIds :
            /\ Takes(t) =>
                  /\ msgs'[QueueName(t)] = msgs[QueueName(t)] - 1
                  /\ consumer'[t].pump = "acc" =>
                        pool'[t].jobQueue = pool[t].jobQueue + 1
                  /\ \A u \in TenantIds \ {t} :
                        /\ pool'[u] = pool[u]
                        /\ consumer'[u] = consumer[u]
                        /\ msgs'[QueueName(u)] = msgs[QueueName(u)]
            /\ pool'[t].jobQueue > pool[t].jobQueue => Takes(t)]_vars
    /\ [](\A other \in NewIds :
            other # ddl.id => NamesOf(other) \cap NamesOf(ddl.id) = {})
    /\ [](ddl.stmt # << >> =>
            <<"m", "e", "s", "s", "a", "g", "e", "s", "_">> \o ddl.stmt[2].text
                = partitionName(ddl.id))

\* Both tenants have had a delivery accepted by their own pool, and the
\* partition statement was built for an id with a hyphen.
C36_Witness ==
    /\ \A t \in TenantIds : consumer[t].pump = "acked"
    /\ budget = 0
    /\ ddl.stmt # << >>
    /\ \E i \in DOMAIN ddl.id : ddl.id[i] = "-"

\* ------------------------------------------------- deleting an absent id
NextAbsent ==
    \/ \E c \in Calls :
        \/ CreateTenant(c)
        \/ DeleteTenant(c)
    \/ \E t \in TenantIds :
        \/ WorkerQuit(t)
        \/ PumpExit(t)

\* Creating and deleting tenants one call at a time over a store and a
\* broker that do not fail, in a run that follows the active_tenants_total
\* gauge.
SpecAbsent == InitRun(1, FALSE, TRUE) /\ [][NextAbsent]_vars

\* Call c takes a step of a DeleteTenant(t) while t has neither a row in
\* table tenants nor a registry entry.
DeletesAbsent(c, t) ==
    /\ call'[c] # call[c]
    /\ call'[c].op = "delete"
    /\ t = (IF Active(c) THEN call[c].id ELSE call'[c].id)
    /\ t \notin tenants
    /\ t \notin consumers \cup workerPools

FairUpdate ==
    \A c \in Calls :
        /\ WF_vars(UpdateLock(c))
        /\ WF_vars(UpdateResize(c))
        /\ WF_vars(UpdateSendQuit(c))

\* Resizing the pool of a running tenant under traffic, with every goroutine
\* scheduled fairly.
SpecUpdate == InitMsg /\ [][NextResize]_vars /\ FairResize /\ FairUpdate

\* C38: UpdateConcurrency(t, n) with n in 1..100 always returns and leaves
\* tm.mu free: it holds the lock exactly while it resizes, a shrink waiting
\* to send on quit has never more signals left to send than the pool has live
\* workers, and the lock is free again when the call returns.
C38_UpdateTerminates ==
    /\ [](\A c \in Calls :
            /\ call[c].pc \in {"u_resize", "u_send"} => mu = {c}
            /\ (call[c].pc = "u_send" /\ ~pool[call[c].id].quit) =>
                  /\ call[c].k >= 1
                  /\ call[c].k <= pool[call[c].id].live)
    /\ [][\A c \in Calls :
            (call[c].op = "update" /\ Active(c) /\ call'[c].pc = "done") =>
                mu' = {}]_vars
    /\ \A c \in Calls :
          (call[c].op = "update" /\ Active(c)) ~> (call[c].pc = "done" /\ mu = {})

\* A shrink has sent its last quit signal with the other workers busy until
\* then: the call returned ok, the lock is free and the pool has the workers
\* asked for.
C38_Witness ==
    \E c \in Calls, t \in workerPools :
        /\ call[c].op = "update" /\ call[c].pc = "done" /\ call[c].ret = "ok"
        /\ mu = {}
        /\ pool[t].workers < defaultWorkers
        /\ pool[t].live = pool[t].workers
        /\ pool[t].busy = pool[t].live

\* C39: a workers value that startTenantConsumer cannot read, by an error or
\* for want of a row, does not fail it: the call goes on from the SELECT with
\* the row's value or the process default, registers a pool of that many
\* workers and returns success; at recovery a tenant whose value was not read
\* gets a running pool of the default size.
C39_UnreadWorkersFallBack ==
    [][/\ \A c \in Calls :
            (call[c].op = "create" /\ StepOf(c)) =>
                LET t == call[c].id IN
                /\ call[c].pc = "c_read" =>
                      /\ call'[c].pc = "c_register"
                      /\ call'[c].w \in {defaultWorkers} \cup
                            (IF t \in DOMAIN tenant_configs
                             THEN {tenant_configs[t]} ELSE {})
                /\ call[c].pc = "c_register" =>
                      /\ call'[c].pc = "c_start"
                      /\ t \in consumers' /\ t \in workerPools'
                      /\ pool'[t].workers = call[c].w
                      /\ pool'[t].live = call[c].w
                /\ call[c].pc = "c_start" => Returns(c, "create", "ok")
       /\ RecoverStep =>
            \A t \in boot'.declared \ (boot.declared \cup boot'.read) :
                /\ t \in consumers' /\ t \in workerPools'
                /\ consumer'[t].pump = "idle"
                /\ pool'[t].workers = defaultWorkers
                /\ pool'[t].live = defaultWorkers]_vars

\* Recovery is over and a tenant whose persisted workers value differs from
\* the default, and could not be read, runs with a pool of the default size.
C39_Witness ==
    /\ Recovered
    /\ \E t \in boot.declared \ boot.read :
         /\ t \in DOMAIN tenant_configs
         /\ tenant_configs[t] # defaultWorkers
         /\ t \in consumers /\ t \in workerPools
         /\ consumer[t].made /\ ~consumer[t].done
         /\ pool[t].workers = defaultWorkers
         /\ pool[t].live = defaultWorkers

====
